---- MODULE Spec2Model ----
(***************************************************************************)
(* Verification model of surge (juliusmarkwei/surge): the path sanitizer,  *)
(* the duplicate and large-file scanners, and the App deletion workflow.   *)
(*                                                                         *)
(* A path is a sequence of components.  An absolute path starts with the   *)
(* root component "/", a relative path with a name, "~/x" is <<"~", "x">>. *)
(* Joining the components with '/' gives the string the Rust code sees, so *)
(* `s == b || s.starts_with(b + "/")` is the component-prefix relation.    *)
(***************************************************************************)
EXTENDS Integers, Sequences, FiniteSets, TLC

VARIABLES
    \* ---- PathSanitizer (security/sanitizer.rs)
    sanitizer,      \* [min_age_days, enforce_age_protection]
    san_path,       \* the path handed to sanitize_path
    home_dir,       \* dirs::home_dir(): <<>> is None
    file_age,       \* now - mtime of the validated path in seconds (< 0: mtime in the future)
    san_result,     \* the Result of sanitize_path
    san_second,     \* the Result of sanitize_path on the path the first call returned
    \* ---- DuplicateScanner (scanner/duplicates.rs)
    dup_scanner,    \* [min_size]
    dup_root,       \* what the scanned root path is
    dup_tree,       \* the regular files the walk yields, in walk order
    sha_collisions, \* which contents SHA-256 maps to the same digest
    dup_unreadable, \* the files of the walk that File::open or read fails on
    dup_result,     \* the Result of DuplicateScanner::scan
    \* ---- LargeFileScanner (scanner/large_files.rs)
    lf_scanner,     \* [min_size, min_age_days]
    lf_root,        \* what the scanned root path is
    lf_tree,        \* the regular files the walk yields, in walk order
    lf_result,      \* the Result of LargeFileScanner::scan
    \* ---- TreeMapScanner (scanner/treemap.rs)
    tm_fs,          \* the filesystem below the scan root
    tm_order,       \* the order in which read_dir yields the names
    tm_result,      \* the Result of TreeMapScanner::scan
    \* ---- CleanupScanner (scanner/cleanup.rs)
    cl_fs,          \* the sizes of the files in each directory below the scanned path
    cl_result,      \* the Result of CleanupScanner::scan_path
    all_home,       \* dirs::home_dir() as scan_all sees it: <<>> is None
    all_fs,         \* what each directory scan_all can reach is
    all_result,     \* the Result of CleanupScanner::scan_all
    \* ---- App (app/state.rs)
    current_screen, previous_screen, preview_mode, menu_index,
    cleanable_items, selected_index, scanning, deleting, sort_order,
    scan_receiver,      \* None, or the channel of the cleanup scan thread
    treemap_root, treemap_scanning, treemap_path_stack,
    treemap_receiver,   \* None, or the channel of the treemap scan thread
    status_message, error_message,
    disk,               \* what each path is on the filesystem
    duplicate_groups, duplicate_scanning, duplicate_selected_group,
    duplicate_selected_file,
    duplicate_receiver,     \* None, or the channel of the duplicate scan thread
    large_files, large_files_scanning, large_files_selected_index,
    large_files_min_size, large_files_min_age,
    large_files_receiver,   \* None, or the channel of the newest large-file scan thread
    orphan_scans,           \* large-file scan threads still running whose receiver was replaced
    fs_log              \* the filesystem calls the handler that ran last issued, in order

sanVars == <<sanitizer, san_path, home_dir, file_age, san_result, san_second>>

dupVars == <<dup_scanner, dup_root, dup_tree, sha_collisions, dup_unreadable, dup_result>>

lfVars == <<lf_scanner, lf_root, lf_tree, lf_result>>

tmVars == <<tm_fs, tm_order, tm_result>>

clVars == <<cl_fs, cl_result, all_home, all_fs, all_result>>

appVars == <<current_screen, previous_screen, preview_mode, menu_index,
             cleanable_items, selected_index, scanning, deleting, sort_order,
             scan_receiver, treemap_root, treemap_scanning, treemap_path_stack,
             treemap_receiver, status_message, error_message, disk>>

\* the App's state for the duplicate and large-file screens
listVars == <<duplicate_groups, duplicate_scanning, duplicate_selected_group,
              duplicate_selected_file, duplicate_receiver, large_files,
              large_files_scanning, large_files_selected_index,
              large_files_min_size, large_files_min_age, large_files_receiver,
              orphan_scans>>

vars == <<sanVars, dupVars, lfVars, tmVars, clVars, appVars, listVars, fs_log>>

(***************************************************************************)
(* Generic helpers                                                         *)
(***************************************************************************)
IsPrefix(s, t) == Len(s) <= Len(t) /\ SubSeq(t, 1, Len(s)) = s

Min(a, b) == IF a <= b THEN a ELSE b

Max(a, b) == IF a >= b THEN a ELSE b

\* the orders in which a HashMap may iterate over the keys S
Orders(S) == { o \in [1..Cardinality(S) -> S] : \A i, j \in DOMAIN o : i # j => o[i] # o[j] }

RECURSIVE Flatten(_)
Flatten(seqs) == IF seqs = <<>> THEN <<>> ELSE Head(seqs) \o Flatten(Tail(seqs))

RECURSIVE SumSeq(_)
SumSeq(ns) == IF ns = <<>> THEN 0 ELSE Head(ns) + SumSeq(Tail(ns))

\* slice::sort_by on the keys, ascending: a stable sort
StableSort(seq, key) ==
    LET rank(i) == Cardinality({ j \in 1..Len(seq) :
                        key[j] < key[i] \/ (key[j] = key[i] /\ j < i) }) + 1
    IN [p \in 1..Len(seq) |-> seq[CHOOSE i \in 1..Len(seq) : rank(i) = p]]

\* what WalkDir::new(root) meets at the root: a directory it can list, a path
\* that does not exist, or a directory it cannot list
WalkRoots == {"dir", "missing", "unreadable"}

\* walker.into_iter().filter_map(|e| e.ok()): the error the walk yields for a
\* root it cannot enter is dropped, which leaves no file
walked_trees(root, trees) == IF root = "dir" THEN trees ELSE {<<>>}

(***************************************************************************)
(* The filesystem the sanitizer runs against (Linux build).                *)
(***************************************************************************)
Root == <<"/">>

\* the process's working directory, against which relative paths resolve
Cwd == Root

FsDirs ==
    { Root,
      <<"/", "etc">>, <<"/", "tmp">>, <<"/", "data">>,
      <<"/", "data", "u">>,
      <<"/", "data", "u", "Documents">>,
      <<"/", "data", "u", "cache">> }

FsFiles ==
    { <<"/", "etc", "passwd">>,
      <<"/", "tmp", "old">>,
      <<"/", "data", "u", "Documents", "cv">>,
      <<"/", "data", "u", "cache", "x">> }

\* symbolic links: /tmp/link -> /etc
FsLinks == { <<"/", "tmp", "link">> }

FsLinkTarget(p) == <<"/", "etc">>

\* how many symbolic links one resolution follows before it gives up (ELOOP)
MaxSymlinks == 2

UserHome == <<"/", "data", "u">>

\* std::fs::canonicalize / realpath(3): every component must exist, symbolic
\* links are followed, "." and ".." are resolved against the resolved prefix.
RECURSIVE Walk(_, _, _)
Walk(cur, rest, fuel) ==
    IF rest = <<>> THEN [ok |-> TRUE, path |-> cur]
    ELSE IF cur \notin FsDirs THEN [ok |-> FALSE, path |-> <<>>]
    ELSE LET c == Head(rest) IN
         IF c = "." THEN Walk(cur, Tail(rest), fuel)
         ELSE IF c = ".."
              THEN Walk(IF Len(cur) > 1 THEN SubSeq(cur, 1, Len(cur) - 1) ELSE cur,
                        Tail(rest), fuel)
         ELSE LET child == Append(cur, c) IN
              IF child \in FsLinks
              THEN IF fuel = 0 THEN [ok |-> FALSE, path |-> <<>>]
                   ELSE Walk(Root, Tail(FsLinkTarget(child)) \o Tail(rest), fuel - 1)
              ELSE IF child \in FsDirs \cup FsFiles
                   THEN Walk(child, Tail(rest), fuel)
                   ELSE [ok |-> FALSE, path |-> <<>>]

canonicalize(p) ==
    IF p = <<>> THEN [ok |-> FALSE, path |-> <<>>]
    ELSE IF p[1] = "/" THEN Walk(Root, Tail(p), MaxSymlinks)
    ELSE Walk(Cwd, p, MaxSymlinks)

\* Path::exists: metadata() of the path succeeds (symbolic links followed)
exists(p) == canonicalize(p).ok

\* Path::parent: the path without its last component; None for the root and
\* for the empty path, Some("") for a single relative component
HasParent(p) == p # <<>> /\ p # Root

parent(p) == SubSeq(p, 1, Len(p) - 1)

(***************************************************************************)
(* security/blacklist.rs                                                   *)
(***************************************************************************)
BLACKLISTED_PATHS ==
    << <<"/", "bin">>, <<"/", "sbin">>, <<"/", "usr", "bin">>, <<"/", "usr", "sbin">>,
       <<"/", "usr", "lib">>, <<"/", "usr", "lib64">>, <<"/", "usr", "libexec">>,
       <<"/", "usr", "share">>, <<"/", "lib">>, <<"/", "lib64">>, <<"/", "etc">>,
       <<"/", "dev">>, <<"/", "proc">>, <<"/", "sys">>, <<"/", "boot">>, <<"/", "root">>,
       <<"/", "var", "lib">>, <<"/", "var", "log", "journal">>,
       <<"/", "home">>,
       <<"~", "Documents">>, <<"~", "Desktop">>, <<"~", "Pictures">>, <<"~", "Music">>,
       <<"~", "Videos">>, <<"~", "Downloads">> >>

(***************************************************************************)
(* security/sanitizer.rs                                                   *)
(***************************************************************************)
Ok(p) == [status |-> "Ok", path |-> p]

Err(reason) == [status |-> reason, path |-> <<>>]

Pending == [status |-> "Pending", path |-> <<>>]

\* the constructors: PathSanitizer::default() and new(min_age_days, enforce)
PathSanitizer(min_age_days, enforce_age_protection) ==
    [min_age_days |-> min_age_days, enforce_age_protection |-> enforce_age_protection]

DefaultMinAgeDays == 7

SecsPerDay == 86400

expand_home(path, home) ==
    IF path # <<>> /\ path[1] = "~"
    THEN IF home = <<>> THEN Err("NoHomeDirectory")
         ELSE Ok(home \o Tail(path))
    ELSE Ok(path)

\* path_str.contains("/../") || path_str.ends_with("/.."): a ".." component
\* that is not the first component of the string
check_path_traversal(path) ==
    IF \E i \in 2..Len(path) : path[i] = ".."
    THEN Err("PathTraversal") ELSE Ok(path)

RECURSIVE check_blacklist_from(_, _, _)
check_blacklist_from(i, path, home) ==
    IF i > Len(BLACKLISTED_PATHS) THEN Ok(path)
    ELSE LET blacklisted_expanded == expand_home(BLACKLISTED_PATHS[i], home) IN
         IF blacklisted_expanded.status # "Ok" THEN blacklisted_expanded
         ELSE IF path = blacklisted_expanded.path
                 \/ (IsPrefix(blacklisted_expanded.path, path)
                     /\ Len(path) > Len(blacklisted_expanded.path))
              THEN Err("Blacklisted")
              ELSE check_blacklist_from(i + 1, path, home)

check_blacklist(path, home) == check_blacklist_from(1, path, home)

\* a check_age_protection that also rejects a file of exactly the minimum age
check_age_protection_Inclusive(path, min_age_days, age) ==
    IF ~exists(path) THEN Ok(path)
    ELSE IF Max(age, 0) \div SecsPerDay <= min_age_days
         THEN Err("TooRecent") ELSE Ok(path)

\* duration_since(modified).unwrap_or_default(): a modification time in the
\* future gives the zero duration
check_age_protection(path, min_age_days, age) ==
    IF ~exists(path) THEN Ok(path)
    ELSE LET age_days == Max(age, 0) \div SecsPerDay IN
         IF age_days < min_age_days THEN Err("TooRecent") ELSE Ok(path)

\* step 2 of sanitize_path: the canonical path, or the expanded path when the
\* path cannot be canonicalized and its parent exists
canonical_or_expanded(expanded) ==
    LET c == canonicalize(expanded) IN
    IF c.ok THEN Ok(c.path)
    ELSE IF HasParent(expanded) /\ exists(parent(expanded))
         THEN Ok(expanded)
         ELSE Err("DoesNotExist")

\* a sanitize_path that looks the path up in the blacklist as it was handed
\* in, before symbolic links are resolved
sanitize_path_BlacklistOnInput(s, path, home, age) ==
    LET expanded == expand_home(path, home) IN
    IF expanded.status # "Ok" THEN expanded
    ELSE LET canonical == canonical_or_expanded(expanded.path) IN
         IF canonical.status # "Ok" THEN canonical
         ELSE IF check_path_traversal(canonical.path).status # "Ok"
              THEN check_path_traversal(canonical.path)
         ELSE IF check_blacklist(expanded.path, home).status # "Ok"
              THEN check_blacklist(expanded.path, home)
         ELSE IF s.enforce_age_protection
                 /\ check_age_protection(canonical.path, s.min_age_days, age).status # "Ok"
              THEN check_age_protection(canonical.path, s.min_age_days, age)
         ELSE Ok(canonical.path)

\* a sanitize_path that runs the age check before the blacklist check
sanitize_path_AgeFirst(s, path, home, age) ==
    LET expanded == expand_home(path, home) IN
    IF expanded.status # "Ok" THEN expanded
    ELSE LET canonical == canonical_or_expanded(expanded.path) IN
         IF canonical.status # "Ok" THEN canonical
         ELSE IF check_path_traversal(canonical.path).status # "Ok"
              THEN check_path_traversal(canonical.path)
         ELSE IF s.enforce_age_protection
                 /\ check_age_protection(canonical.path, s.min_age_days, age).status # "Ok"
              THEN check_age_protection(canonical.path, s.min_age_days, age)
         ELSE IF check_blacklist(canonical.path, home).status # "Ok"
              THEN check_blacklist(canonical.path, home)
         ELSE Ok(canonical.path)

sanitize_path(s, path, home, age) ==
    LET expanded == expand_home(path, home) IN
    IF expanded.status # "Ok" THEN expanded
    ELSE LET canonical == canonical_or_expanded(expanded.path) IN
         IF canonical.status # "Ok" THEN canonical
         ELSE IF check_path_traversal(canonical.path).status # "Ok"
              THEN check_path_traversal(canonical.path)
         ELSE IF check_blacklist(canonical.path, home).status # "Ok"
              THEN check_blacklist(canonical.path, home)
         ELSE IF s.enforce_age_protection
                 /\ check_age_protection(canonical.path, s.min_age_days, age).status # "Ok"
              THEN check_age_protection(canonical.path, s.min_age_days, age)
         ELSE Ok(canonical.path)

without_age_protection(s) == [s EXCEPT !.enforce_age_protection = FALSE]

with_min_age(s, days) == [s EXCEPT !.min_age_days = days]

(***************************************************************************)
(* Specification SpecSan: one sanitize_path call on a drawn input.         *)
(***************************************************************************)
SanPaths ==
    { <<"/", "etc">>,                         \* a blacklist entry
      <<"/", "etc", "passwd">>,               \* nested under one
      <<"/", "tmp", "old">>,                  \* an existing file outside the blacklist
      <<"/", "tmp", "new">>,                  \* missing, parent exists
      <<"/", "tmp", "nodir", "new">>,         \* neither exists
      <<"/", "tmp", "link">>,                 \* a symbolic link to /etc
      <<"/", "tmp", "link", "passwd">>,
      <<"/", "tmp", "link", "new">>,          \* missing name below the link
      <<"/", "tmp", "..", "etc", "passwd">>,
      <<"/", "tmp", "..", "etc", "new">>,
      <<"/", "tmp", "..", "tmp", "new">>,
      <<"/", "tmp", "..", "tmp", "old">>,
      <<"~">>,
      <<"~", "Documents", "cv">>,
      <<"~", "cache", "x">>,
      <<"~", "cache", "new">>,
      <<"etc", "new">>,                       \* relative, resolved against Cwd
      <<"tmp", "old">>,
      <<"new">>,
      Root }

SanMinAges == {0, 1, DefaultMinAgeDays}

\* seconds since modification: in the future, fresh, either side of one day
\* and of seven days, ten years
SanAges == {-3600, 0, SecsPerDay - 1, SecsPerDay, 7 * SecsPerDay - 1, 7 * SecsPerDay,
            3650 * SecsPerDay}

SanInit ==
    /\ sanitizer \in { PathSanitizer(d, e) : d \in SanMinAges, e \in BOOLEAN }
    /\ san_path \in SanPaths
    /\ home_dir \in { <<>>, UserHome }
    /\ file_age \in SanAges
    /\ san_result = Pending
    /\ san_second = Pending

SanIdle ==
    /\ sanitizer = PathSanitizer(DefaultMinAgeDays, TRUE)
    /\ san_path = Root
    /\ home_dir = UserHome
    /\ file_age = 0
    /\ san_result = Pending
    /\ san_second = Pending

SanitizeCall ==
    /\ san_result = Pending
    /\ san_result' = sanitize_path(sanitizer, san_path, home_dir, file_age)
    /\ UNCHANGED <<sanitizer, san_path, home_dir, file_age, san_second>>

\* the validated path is validated once more, against the same filesystem
SanitizeAgain ==
    /\ san_result.status = "Ok"
    /\ san_second = Pending
    /\ san_second' = sanitize_path(sanitizer, san_result.path, home_dir, file_age)
    /\ UNCHANGED <<sanitizer, san_path, home_dir, file_age, san_result>>

(***************************************************************************)
(* scanner/duplicates.rs                                                   *)
(*                                                                         *)
(* A file of the tree is [len, bytes, modified]: its content is len bytes  *)
(* of the pattern `bytes`, so its metadata size is len.  SHA-256 is a      *)
(* function of the content into a finite set and is not injective;         *)
(* sha_collisions says which contents of the tree collide.  A file whose   *)
(* position is in dup_unreadable has metadata but cannot be opened or read *)
(* to the end.  dup_result.calls is the sequence of the calls scan made on *)
(* the files: entry.metadata() during the walk, then hash_file.            *)
(***************************************************************************)
DupSizes == {1, 2}

DupBytes == {"x", "y"}

DupMtimes == {1, 2}

\* the largest number of files in a scanned tree
MaxFiles == 4

DupFiles == [len : DupSizes, bytes : DupBytes, modified : DupMtimes]

DupTrees == UNION { [1..n -> DupFiles] : n \in 0..MaxFiles }

content(f) == <<f.len, f.bytes>>

\* format!("{:x}", Sha256(content))
sha256(c, collisions) ==
    CASE collisions = "none" -> c
      [] collisions = "across_sizes" -> <<0, c[2]>>
      [] collisions = "within_size" -> <<c[1], "x">>

DuplicateScanner(min_size) == [min_size |-> min_size]

DuplicateFile(path, size, modified) ==
    [path |-> path, size |-> size, modified |-> modified, selected |-> FALSE]

\* hash_file: the digest of what the file holds
hash_file(tree, path, collisions) == sha256(content(tree[path]), collisions)

\* hash_file returns Ok: File::open(path)? and every reader.read(..)? succeed
hash_file_ok(unreadable, path) == path \notin unreadable

FileCall(call, path) == [call |-> call, path |-> path]

\* the walk of group_by_size asks every regular file for its metadata
metadata_calls(tree) == [i \in 1..Len(tree) |-> FileCall("metadata", i)]

\* group_by_size: size -> the paths of that size, in walk order; a path is
\* the file's position in the walk
group_by_size(scanner, tree) ==
    LET kept == { i \in 1..Len(tree) : ~(tree[i].len < scanner.min_size) } IN
    [size \in { tree[i].len : i \in kept } |->
        SelectSeq([i \in 1..Len(tree) |-> i],
                  LAMBDA i : i \in kept /\ tree[i].len = size)]

\* a Step 2 that hashes the files of every bucket
opened_files_EveryBucket(size_groups, size_order) ==
    Flatten([k \in 1..Len(size_order) |-> size_groups[size_order[k]]])

\* Step 2: the buckets are visited in the order size_order; a bucket of fewer
\* than 2 files is skipped, hash_file is called on each file of the others
opened_files(size_groups, size_order) ==
    Flatten([k \in 1..Len(size_order) |->
        LET files == size_groups[size_order[k]] IN
        IF Len(files) < 2 THEN <<>> ELSE files])

\* a Step 2 that pushes a file whether or not hash_file returned Ok
hashed_files_FailuresToo(size_groups, tree, size_order, unreadable) ==
    LET opened == opened_files(size_groups, size_order) IN
    [n \in 1..Len(opened) |->
        DuplicateFile(opened[n], tree[opened[n]].len, tree[opened[n]].modified)]

\* Step 2: the files pushed to hash_groups, those hash_file returned Ok for
hashed_files(size_groups, tree, size_order, unreadable) ==
    LET opened == SelectSeq(opened_files(size_groups, size_order),
                            LAMBDA path : hash_file_ok(unreadable, path)) IN
    [n \in 1..Len(opened) |->
        DuplicateFile(opened[n], tree[opened[n]].len, tree[opened[n]].modified)]

\* hash_groups.entry(hash).or_default().push(duplicate_file)
hash_groups_of(pushed, tree, collisions) ==
    [hash \in { hash_file(tree, pushed[n].path, collisions) : n \in 1..Len(pushed) } |->
        SelectSeq(pushed, LAMBDA f : hash_file(tree, f.path, collisions) = hash)]

\* a filter that drops the groups of exactly two files
keep_group_MoreThanTwo(files) == Len(files) > 2

\* .filter(|(_, files)| files.len() >= 2)
keep_group(files) == Len(files) >= 2

\* files.sort_by(|a, b| a.modified.cmp(&b.modified))
sort_members(files) ==
    StableSort(files, [n \in 1..Len(files) |-> files[n].modified])

DuplicateGroup(hash, files0) ==
    LET files == sort_members(files0)
        total_size == SumSeq([n \in 1..Len(files) |-> files[n].size])
        duplicate_size == IF files # <<>> THEN total_size - files[1].size ELSE 0
    IN [hash |-> hash, files |-> files, total_size |-> total_size,
        duplicate_size |-> duplicate_size]

\* a scan that leaves the groups in the HashMap's order
sort_groups_Unsorted(groups) == groups

\* duplicate_groups.sort_by(|a, b| b.duplicate_size.cmp(&a.duplicate_size))
sort_groups(groups) ==
    StableSort(groups, [n \in 1..Len(groups) |-> 0 - groups[n].duplicate_size])

\* Step 3: the hash groups are visited in the order hash_order
duplicate_groups_of(hash_groups, hash_order) ==
    LET kept == SelectSeq(hash_order, LAMBDA h : keep_group(hash_groups[h])) IN
    sort_groups([n \in 1..Len(kept) |-> DuplicateGroup(kept[n], hash_groups[kept[n]])])

\* DuplicateScanner::scan, for one iteration order of each of its two HashMaps
DuplicateScanner_scan(scanner, tree, collisions, unreadable, size_order, hash_order) ==
    LET size_groups == group_by_size(scanner, tree)
        hash_groups == hash_groups_of(
                           hashed_files(size_groups, tree, size_order, unreadable),
                           tree, collisions)
    IN duplicate_groups_of(hash_groups, hash_order)

\* the calls of one scan, in the order scan makes them
scan_calls(scanner, tree, size_order) ==
    LET opened == opened_files(group_by_size(scanner, tree), size_order) IN
    metadata_calls(tree) \o [n \in 1..Len(opened) |-> FileCall("hash_file", opened[n])]

DupPending == [status |-> "Pending", groups |-> <<>>, calls |-> <<>>]

\* at most one file of the walk cannot be read
DupUnreadable(tree) == { {} } \cup { {i} : i \in 1..Len(tree) }

DupInit ==
    /\ dup_scanner \in { DuplicateScanner(m) : m \in DupSizes }
    /\ dup_root \in WalkRoots
    /\ dup_tree \in walked_trees(dup_root, DupTrees)
    /\ sha_collisions \in {"none", "across_sizes", "within_size"}
    /\ dup_unreadable \in DupUnreadable(dup_tree)
    /\ dup_result = DupPending

DupIdle ==
    /\ dup_scanner = DuplicateScanner(1)
    /\ dup_root = "dir"
    /\ dup_tree = <<>>
    /\ sha_collisions = "none"
    /\ dup_unreadable = {}
    /\ dup_result = DupPending

DupScan ==
    /\ dup_result = DupPending
    /\ LET size_groups == group_by_size(dup_scanner, dup_tree) IN
       \E size_order \in Orders(DOMAIN size_groups) :
          LET hash_groups == hash_groups_of(
                                 hashed_files(size_groups, dup_tree, size_order,
                                              dup_unreadable),
                                 dup_tree, sha_collisions) IN
          \E hash_order \in Orders(DOMAIN hash_groups) :
             dup_result' = [status |-> "Ok",
                            groups |-> DuplicateScanner_scan(dup_scanner, dup_tree,
                                           sha_collisions, dup_unreadable,
                                           size_order, hash_order),
                            calls |-> scan_calls(dup_scanner, dup_tree, size_order)]
    /\ UNCHANGED <<dup_scanner, dup_root, dup_tree, sha_collisions, dup_unreadable>>

(***************************************************************************)
(* scanner/large_files.rs                                                  *)
(*                                                                         *)
(* A file of the tree is [size, mtime_ok, age]: metadata.len(), whether    *)
(* metadata.modified() is Ok, and now - mtime in seconds (negative for a   *)
(* modification time in the future), `now` being read once when the scan   *)
(* starts.                                                                 *)
(***************************************************************************)
LfSizes == {1, 3, 5}

\* in the future, a second short of one day, one day to the second, past it
LfAges == {-60, SecsPerDay - 1, SecsPerDay, SecsPerDay + 1}

\* the largest number of files in a scanned tree
MaxLargeFiles == 3

LfFiles ==
    [size : LfSizes, mtime_ok : {TRUE}, age : LfAges]
        \cup [size : LfSizes, mtime_ok : {FALSE}, age : {0}]

LfTrees == UNION { [1..n -> LfFiles] : n \in 0..MaxLargeFiles }

LargeFileScanner(min_size, min_age_days) ==
    [min_size |-> min_size, min_age_days |-> min_age_days]

\* `mod_time >= cutoff` with cutoff = now - min_age_days * 86400: the file is
\* too new; an unreadable modification time is not checked
too_new(scanner, file) ==
    /\ scanner.min_age_days > 0
    /\ file.mtime_ok
    /\ file.age <= scanner.min_age_days * SecsPerDay

\* now.duration_since(mod_time) is an Err for a time in the future
age_days_of(file) ==
    IF file.mtime_ok
    THEN IF file.age >= 0 THEN file.age \div SecsPerDay ELSE 0
    ELSE 0

\* the entry pushed for a file; `modified` is kept as the age in seconds, and
\* is Local::now() (age 0) when it cannot be read
LargeFileItem(path, file) ==
    [path |-> path, size |-> file.size,
     modified |-> IF file.mtime_ok THEN file.age ELSE 0,
     age_days |-> age_days_of(file), selected |-> FALSE]

\* items.sort_by(|a, b| b.size.cmp(&a.size))
sort_by_size(items) ==
    StableSort(items, [n \in 1..Len(items) |-> 0 - items[n].size])

LargeFileScanner_scan(scanner, tree) ==
    LET kept == SelectSeq([i \in 1..Len(tree) |-> i],
                    LAMBDA i : /\ ~(tree[i].size < scanner.min_size)
                               /\ ~too_new(scanner, tree[i]))
    IN sort_by_size([n \in 1..Len(kept) |-> LargeFileItem(kept[n], tree[kept[n]])])

LfPending == [status |-> "Pending", items |-> <<>>]

LfInit ==
    /\ lf_scanner \in { LargeFileScanner(m, d) : m \in {1, 3}, d \in {0, 1} }
    /\ lf_root \in WalkRoots
    /\ lf_tree \in walked_trees(lf_root, LfTrees)
    /\ lf_result = LfPending

LfIdle ==
    /\ lf_scanner = LargeFileScanner(1, 0)
    /\ lf_root = "dir"
    /\ lf_tree = <<>>
    /\ lf_result = LfPending

LfScan ==
    /\ lf_result = LfPending
    /\ lf_result' = [status |-> "Ok", items |-> LargeFileScanner_scan(lf_scanner, lf_tree)]
    /\ UNCHANGED <<lf_scanner, lf_root, lf_tree>>

(***************************************************************************)
(* scanner/treemap.rs                                                      *)
(*                                                                         *)
(* The scanned filesystem is a function from paths, written relative to    *)
(* the scan root (<<>> is the root itself), to [is_dir, len, readable]:    *)
(* len is metadata.len() (a directory has a length of its own), readable   *)
(* tells whether fs::read_dir succeeds.  The trees drawn are a chain of    *)
(* directories "d" with, in each directory, an optional file "f" and, in   *)
(* at most one directory, a hidden file ".h".                              *)
(***************************************************************************)
\* scan(): self.scan_directory(root_path, 0, 3)
TreeMaxDepth == 3

\* the deepest directory of a scanned tree: two levels below the depth cap
MaxChain == 5

TmNames == {"d", "f", ".h"}

RECURSIVE Chain(_)
Chain(k) == IF k = 0 THEN <<>> ELSE Append(Chain(k - 1), "d")

TmDir(readable) == [is_dir |-> TRUE, len |-> 4, readable |-> readable]

TmFile(len) == [is_dir |-> FALSE, len |-> len, readable |-> TRUE]

\* a chain of directories down to `depth`, the levels in `files` holding "f"
\* (3 bytes), those in `hidden` holding ".h" (2 bytes), those in `locked`
\* refusing read_dir
TmTree(depth, files, hidden, locked) ==
    LET paths == { Chain(k) : k \in 0..depth }
                 \cup { Append(Chain(k), "f") : k \in files }
                 \cup { Append(Chain(k), ".h") : k \in hidden }
    IN [p \in paths |->
          IF p = <<>> \/ p[Len(p)] = "d" THEN TmDir(Len(p) \notin locked)
          ELSE IF p[Len(p)] = "f" THEN TmFile(3) ELSE TmFile(2)]

\* the root is missing, is a regular file, or heads a tree
TmFileSystems ==
    { [p \in {} |-> TmFile(0)], [p \in {<<>>} |-> TmFile(3)] }
    \cup UNION { { TmTree(depth, files, hidden, locked) :
                     files \in SUBSET (0..Min(depth, MaxChain - 1)),
                     hidden \in { {} } \cup { {k} : k \in 0..Min(depth, MaxChain - 1) },
                     locked \in { {} } \cup { {k} : k \in 0..depth } }
                 : depth \in 0..MaxChain }

TreeMapItem(path, size, is_file) ==
    [path |-> path, size |-> size, is_file |-> is_file, children |-> <<>>]

\* fs::read_dir(path): the entries in directory order, or an error
read_dir(fs, order, path) ==
    IF path \in DOMAIN fs /\ fs[path].is_dir /\ fs[path].readable
    THEN [ok |-> TRUE,
          entries |-> SelectSeq([n \in 1..Len(order) |-> Append(path, order[n])],
                                LAMBDA p : p \in DOMAIN fs)]
    ELSE [ok |-> FALSE, entries |-> <<>>]

\* child_path.file_name() starts with '.'
is_hidden(path) == path[Len(path)] = ".h"

\* a one-level size that leaves the sub-directories' own lengths out
quick_dir_size_FilesOnly(fs, order, path) ==
    LET rd == read_dir(fs, order, path) IN
    SumSeq([n \in 1..Len(rd.entries) |->
        IF fs[rd.entries[n]].is_dir THEN 0 ELSE fs[rd.entries[n]].len])

quick_dir_size(fs, order, path) ==
    LET rd == read_dir(fs, order, path) IN
    SumSeq([n \in 1..Len(rd.entries) |-> fs[rd.entries[n]].len])

\* item.children.sort_by(|a, b| b.size.cmp(&a.size))
sort_children(children) ==
    StableSort(children, [n \in 1..Len(children) |-> 0 - children[n].size])

RECURSIVE scan_directory(_, _, _, _, _)
scan_directory(fs, order, path, current_depth, max_depth) ==
    IF path \notin DOMAIN fs THEN [ok |-> FALSE, item |-> TreeMapItem(path, 0, FALSE)]
    ELSE IF ~fs[path].is_dir
    THEN [ok |-> TRUE, item |-> TreeMapItem(path, fs[path].len, TRUE)]
    ELSE
      LET entries == read_dir(fs, order, path).entries
          \* what the loop body makes of one entry: <<>> when it is skipped
          child_of(child_path) ==
              IF is_hidden(child_path) THEN <<>>
              ELSE IF fs[child_path].is_dir
              THEN IF current_depth < max_depth
                   THEN LET r == scan_directory(fs, order, child_path,
                                                current_depth + 1, max_depth)
                        IN IF r.ok THEN <<r.item>> ELSE <<>>
                   ELSE <<TreeMapItem(child_path,
                                      quick_dir_size(fs, order, child_path), FALSE)>>
              ELSE <<TreeMapItem(child_path, fs[child_path].len, TRUE)>>
          children == Flatten([n \in 1..Len(entries) |-> child_of(entries[n])])
          total_size == SumSeq([n \in 1..Len(children) |-> children[n].size])
      IN [ok |-> TRUE,
          item |-> [path |-> path, size |-> total_size, is_file |-> FALSE,
                    children |-> sort_children(children)]]

TreeMapScanner_scan(fs, order) == scan_directory(fs, order, <<>>, 0, TreeMaxDepth)

TmPending == [status |-> "Pending", item |-> TreeMapItem(<<>>, 0, FALSE)]

TmInit ==
    /\ tm_fs \in TmFileSystems
    /\ tm_order \in Orders(TmNames)
    /\ tm_result = TmPending

TmIdle ==
    /\ tm_fs = TmTree(0, {}, {}, {})
    /\ tm_order = <<"d", "f", ".h">>
    /\ tm_result = TmPending

TmScan ==
    /\ tm_result = TmPending
    /\ LET r == TreeMapScanner_scan(tm_fs, tm_order) IN
       tm_result' = IF r.ok THEN [status |-> "Ok", item |-> r.item]
                    ELSE [status |-> "Err", item |-> TreeMapItem(<<>>, 0, FALSE)]
    /\ UNCHANGED <<tm_fs, tm_order>>

(***************************************************************************)
(* scanner/cleanup.rs                                                      *)
(*                                                                         *)
(* The scanned path holds a chain of directories; cl_fs[k] is the sequence *)
(* of the sizes of the regular files right under the directory at depth k  *)
(* (the scanned path itself is at depth 0), in the order the walk yields   *)
(* them.                                                                   *)
(***************************************************************************)
\* WalkDir::max_depth(5): entries more than 5 levels below the path are not
\* yielded
CleanupMaxDepth == 5

\* a directory is reported when its size exceeds 100 KiB
CleanupMinSize == 100 * 1024

\* the depth of the deepest directory of the scanned tree
MaxCleanupChain == 5

\* no file, one file of exactly 100 KiB, two files of 101 KiB together
ClFileLists == { <<>>, <<CleanupMinSize>>, <<1024, CleanupMinSize>> }

ClFileSystems == [0..MaxCleanupChain -> ClFileLists]

\* the walk: a file right under the directory at depth k is an entry of depth
\* k + 1, and its size is added to the entry of its parent
dir_sizes(fs) ==
    [k \in { d \in DOMAIN fs : d + 1 <= CleanupMaxDepth /\ fs[d] # <<>> } |-> SumSeq(fs[k])]

CleanableItemOf(depth, total_size) ==
    [path |-> Chain(depth), size |-> total_size, selected |-> FALSE]

\* the directories of dir_sizes above the threshold; `order` is the order in
\* which the HashMap yields its keys
scan_path(fs, order) ==
    LET sizes == dir_sizes(fs)
        kept == SelectSeq(order, LAMBDA k : sizes[k] > CleanupMinSize)
    IN [n \in 1..Len(kept) |-> CleanableItemOf(kept[n], sizes[kept[n]])]

ClPending == [status |-> "Pending", items |-> <<>>]

\* scan_all works on directories named by absolute paths.  all_fs maps each
\* directory to whether it exists and to the total size of the regular files
\* right under it; a directory that is not in all_fs does not exist.
HomeOfUser == <<"/", "home", "u">>

AllDirs ==
    { <<"/", "var", "cache">>,
      HomeOfUser,
      HomeOfUser \o <<".cache">>,
      HomeOfUser \o <<".cache", "pip">>,
      HomeOfUser \o <<"Downloads">>,
      HomeOfUser \o <<"Library">> }

\* no file, files of 1 KiB, files of 200 KiB
AllFileSizes == {0, 1024, 200 * 1024}

AbsentDir == [exists |-> FALSE, size |-> 0]

\* a directory exists only when its parent does
AllFileSystems ==
    { fs \in [AllDirs -> {AbsentDir} \cup { [exists |-> TRUE, size |-> n] : n \in AllFileSizes }] :
        \A d \in AllDirs : \A e \in AllDirs :
            (IsPrefix(d, e) /\ ~fs[d].exists) => ~fs[e].exists }

\* the orders in which a HashMap may yield the directories
AllOrders ==
    LET o == << <<"/", "var", "cache">>,
                HomeOfUser,
                HomeOfUser \o <<".cache">>,
                HomeOfUser \o <<".cache", "pip">>,
                HomeOfUser \o <<"Downloads">>,
                HomeOfUser \o <<"Library">> >>
    IN { o, [n \in 1..Len(o) |-> o[Len(o) + 1 - n]] }

\* CleanupCategory::all()
CleanupCategory_all ==
    << "SystemCaches", "UserCaches", "Logs", "Trash", "Downloads",
       "DeveloperCaches", "BrowserData", "ApplicationSupport" >>

\* get_category_paths (target_os = "linux"); home is <<>> when there is none
get_category_paths(category, home) ==
    CASE category = "SystemCaches" -> << <<"/", "var", "cache">> >>
      [] category = "Logs" -> << <<"/", "var", "log">> >>
      [] category = "ApplicationSupport" -> <<>>
      [] home = <<>> -> <<>>
      [] category = "UserCaches" -> << home \o <<".cache">> >>
      [] category = "Trash" -> << home \o <<".local", "share", "Trash">> >>
      [] category = "Downloads" -> << home \o <<"Downloads">> >>
      [] category = "DeveloperCaches" ->
            << home \o <<".npm">>, home \o <<".yarn">>,
               home \o <<".cargo", "registry">>, home \o <<".gradle", "caches">>,
               home \o <<".cache", "pip">> >>
      [] category = "BrowserData" ->
            << home \o <<".cache", "google-chrome">>,
               home \o <<".mozilla", "firefox">>,
               home \o <<".cache", "chromium">> >>

\* path.exists()
dir_exists(fs, path) == path \in DOMAIN fs /\ fs[path].exists

ScanItem(path, size, category) ==
    [path |-> path, size |-> size, category |-> category, selected |-> FALSE]

\* scan_path on a directory of all_fs: the keys of dir_sizes are the
\* directories at most CleanupMaxDepth - 1 levels below `path` that hold a
\* file; `order` is the order in which the HashMap yields them
scan_path_in(fs, order, path, category) ==
    LET keys == { d \in DOMAIN fs :
                    /\ IsPrefix(path, d)
                    /\ Len(d) - Len(path) + 1 <= CleanupMaxDepth
                    /\ fs[d].exists
                    /\ fs[d].size > 0 }
        kept == SelectSeq(order, LAMBDA d : d \in keys /\ fs[d].size > CleanupMinSize)
    IN [n \in 1..Len(kept) |-> ScanItem(kept[n], fs[kept[n]].size, category)]

\* the loop over `paths` of scan_category and over common_dirs of scan_all
RECURSIVE scan_paths(_, _, _, _)
scan_paths(fs, order, paths, category) ==
    IF paths = <<>> THEN <<>>
    ELSE (IF dir_exists(fs, Head(paths))
          THEN scan_path_in(fs, order, Head(paths), category)
          ELSE <<>>)
         \o scan_paths(fs, order, Tail(paths), category)

scan_category(fs, order, home, category) ==
    scan_paths(fs, order, get_category_paths(category, home), category)

\* the first loop of scan_all
scan_categories(fs, order, home) ==
    Flatten([n \in 1..Len(CleanupCategory_all) |->
                scan_category(fs, order, home, CleanupCategory_all[n])])

\* home.join(..) of the fallback
common_dirs(home) ==
    << home \o <<"Downloads">>, home \o <<"Documents">>,
       home \o <<"Desktop">>, home \o <<"Library">> >>

scan_all(fs, order, home) ==
    LET all_items == scan_categories(fs, order, home) IN
    IF all_items = <<>> /\ home # <<>>
    THEN scan_paths(fs, order, common_dirs(home), "UserCaches")
    ELSE all_items

AllIdle ==
    /\ all_home = HomeOfUser
    /\ all_fs = [d \in AllDirs |-> AbsentDir]
    /\ all_result = ClPending

AllInit ==
    /\ cl_fs = [k \in 0..MaxCleanupChain |-> <<>>]
    /\ cl_result = ClPending
    /\ all_home \in {<<>>, HomeOfUser}
    /\ all_fs \in AllFileSystems
    /\ all_result = ClPending

ClInit ==
    /\ cl_fs \in ClFileSystems
    /\ cl_result = ClPending
    /\ AllIdle

ClIdle ==
    /\ cl_fs = [k \in 0..MaxCleanupChain |-> <<>>]
    /\ cl_result = ClPending
    /\ AllIdle

ClScan ==
    /\ cl_result = ClPending
    /\ \E order \in Orders(DOMAIN dir_sizes(cl_fs)) :
          cl_result' = [status |-> "Ok", items |-> scan_path(cl_fs, order)]
    /\ UNCHANGED <<cl_fs, all_home, all_fs, all_result>>

AllScan ==
    /\ all_result = ClPending
    /\ \E order \in AllOrders :
          all_result' = [status |-> "Ok", items |-> scan_all(all_fs, order, all_home)]
    /\ UNCHANGED <<cl_fs, cl_result, all_home, all_fs>>

(***************************************************************************)
(* app/state.rs: the App behind the terminal UI, its storage-cleanup       *)
(* workflow, and the scan threads it spawns.                               *)
(*                                                                         *)
(* navigate_to_screen has arms for 1 and 2 only, so under Spec, the App as  *)
(* main.rs drives it, Screen::DuplicateFinder and Screen::LargeFiles are   *)
(* never current and the arms of the handlers for them are not taken.      *)
(* SpecBatch and SpecScans drive the public methods behind those screens.  *)
(* number_buffer, spinner_state and system_stats carry nothing the         *)
(* workflow reads.                                                         *)
(***************************************************************************)
None == "None"

\* the directories a cleanup scan reports
AppPaths == {"cache_a", "cache_c"}

\* total size of the files right under each directory
AppSize == [p \in AppPaths |-> IF p = "cache_a" THEN 1 ELSE 2]

\* the most entries a cleanup scan returns; a directory listed under two
\* categories is returned twice
MaxItems == 2

CleanableItem(path) == [path |-> path, size |-> AppSize[path], selected |-> FALSE]

ScanResults ==
    UNION { [1..n -> { CleanableItem(p) : p \in AppPaths }] : n \in 0..MaxItems }

\* the files a large-file scan reports, and the copies a duplicate scan reports
LargePaths == {"big_a", "big_b"}

DupPaths == {"copy_a", "copy_b", "copy_c"}

\* what a path is when the deletion reaches it: "locked" is a directory whose
\* removal is refused, "absent" a path already gone
DiskInit == [p \in AppPaths \cup LargePaths \cup DupPaths |->
                CASE p \in {"cache_a"} -> "dir"
                  [] p \in {"big_b", "copy_b", "copy_c"} -> "file"
                  [] p \in {"big_a", "copy_a"} -> "absent"
                  [] OTHER -> "locked"]

\* the size a scan reports for a path
ListedSize(path) ==
    CASE path \in AppPaths -> AppSize[path]
      [] path = "big_a" -> 5
      [] path = "big_b" -> 3
      [] OTHER -> 2

\* what the thread of start_large_files_scan can send: the items in
\* descending order of size
LargeFileResults ==
    LET a == LargeFileItem("big_a", [size |-> ListedSize("big_a"), mtime_ok |-> TRUE, age |-> 0])
        b == LargeFileItem("big_b", [size |-> ListedSize("big_b"), mtime_ok |-> TRUE, age |-> 0])
    IN {<<>>, <<a>>, <<b>>, <<a, b>>}

\* what the thread of start_duplicate_scan can send: no group, or one group of
\* two or three copies of 2 bytes, oldest first
DuplicateResults ==
    LET a == DuplicateFile("copy_a", ListedSize("copy_a"), 1)
        b == DuplicateFile("copy_b", ListedSize("copy_b"), 2)
        c == DuplicateFile("copy_c", ListedSize("copy_c"), 3)
    IN {<<>>, <<DuplicateGroup("h", <<b, c>>)>>, <<DuplicateGroup("h", <<a, b, c>>)>>}

Message(kind, count, size, failed) ==
    [kind |-> kind, count |-> count, size |-> size, failed |-> failed]

NoMessage == Message(None, 0, 0, 0)

\* item.path.is_dir()
is_dir(fs, path) == fs[path] \in {"dir", "locked"}

\* std::fs::remove_dir_all / std::fs::remove_file on `path`
fs_remove(fs, path) ==
    LET op == IF is_dir(fs, path) THEN "remove_dir_all" ELSE "remove_file"
        ok == fs[path] \in {"dir", "file"}
    IN [call |-> [op |-> op, path |-> path, ok |-> ok],
        fs   |-> IF ok THEN [fs EXCEPT ![path] = "absent"] ELSE fs]

\* a loop that gives up at the first removal that fails
RECURSIVE delete_loop_StopAtFailure(_, _, _)
delete_loop_StopAtFailure(items, i, acc) ==
    IF i > Len(items) THEN acc
    ELSE IF ~items[i].selected THEN delete_loop_StopAtFailure(items, i + 1, acc)
    ELSE LET r == fs_remove(acc.fs, items[i].path)
             next == [fs            |-> r.fs,
                      log           |-> Append(acc.log, r.call),
                      deleted_count |-> acc.deleted_count + (IF r.call.ok THEN 1 ELSE 0),
                      failed_count  |-> acc.failed_count + (IF r.call.ok THEN 0 ELSE 1)]
         IN IF r.call.ok THEN delete_loop_StopAtFailure(items, i + 1, next) ELSE next

\* the loop of a delete handler over the selected items, from item i on
RECURSIVE delete_loop(_, _, _)
delete_loop(items, i, acc) ==
    IF i > Len(items) THEN acc
    ELSE IF ~items[i].selected THEN delete_loop(items, i + 1, acc)
    ELSE LET r == fs_remove(acc.fs, items[i].path) IN
         delete_loop(items, i + 1,
             [fs            |-> r.fs,
              log           |-> Append(acc.log, r.call),
              deleted_count |-> acc.deleted_count + (IF r.call.ok THEN 1 ELSE 0),
              failed_count  |-> acc.failed_count + (IF r.call.ok THEN 0 ELSE 1)])

get_selected_size(items) ==
    SumSeq([n \in 1..Len(items) |-> IF items[n].selected THEN items[n].size ELSE 0])

selected_count_of(items) == Cardinality({ n \in 1..Len(items) : items[n].selected })

\* a retain that keeps the selected items and drops the others
retain_unselected_Inverted(items) == SelectSeq(items, LAMBDA item : item.selected)

\* cleanable_items.retain(|item| !item.selected)
retain_unselected(items) == SelectSeq(items, LAMBDA item : ~item.selected)

\* a spawned scan thread and the channel it answers on
Running == [state |-> "Running", value |-> <<>>]

Sent(value) == [state |-> "Sent", value |-> value]

Disconnected == [state |-> "Disconnected", value |-> <<>>]

NoReceiver == [state |-> None, value |-> <<>>]

AppInit ==
    /\ current_screen = "Home"
    /\ previous_screen = None
    /\ preview_mode \in BOOLEAN
    /\ menu_index = 0
    /\ cleanable_items = <<>>
    /\ selected_index = 0
    /\ scanning = FALSE
    /\ deleting = FALSE
    /\ sort_order = "None"
    /\ scan_receiver = NoReceiver
    /\ treemap_root = None
    /\ treemap_scanning = FALSE
    /\ treemap_path_stack = <<>>
    /\ treemap_receiver = NoReceiver
    /\ status_message = NoMessage
    /\ error_message = NoMessage
    /\ disk = DiskInit
    /\ duplicate_groups = <<>>
    /\ duplicate_scanning = FALSE
    /\ duplicate_selected_group = 0
    /\ duplicate_selected_file = 0
    /\ duplicate_receiver = NoReceiver
    /\ large_files = <<>>
    /\ large_files_scanning = FALSE
    /\ large_files_selected_index = 0
    /\ large_files_min_size = 1024 * 1024 * 100
    /\ large_files_min_age = 0
    /\ large_files_receiver = NoReceiver
    /\ orphan_scans = 0
    /\ fs_log = <<>>

\* the App of another component's specification: constructed, never driven
AppIdle == AppInit /\ preview_mode = FALSE

navigate_to_screen(number) ==
    IF number \notin {1, 2}
    THEN UNCHANGED appVars
    ELSE LET new_screen == IF number = 1 THEN "StorageCleanup" ELSE "DiskTreeMap"
             \* start_async_scan
             scan == new_screen = "StorageCleanup" /\ cleanable_items = <<>> /\ ~scanning
             \* start_treemap_scan
             tree == new_screen = "DiskTreeMap" /\ treemap_root = None /\ ~treemap_scanning
         IN /\ previous_screen' = current_screen
            /\ current_screen' = new_screen
            /\ scanning' = (scanning \/ scan)
            /\ scan_receiver' = IF scan THEN Running ELSE scan_receiver
            /\ treemap_scanning' = (treemap_scanning \/ tree)
            /\ treemap_receiver' = IF tree THEN Running ELSE treemap_receiver
            /\ status_message' =
                  IF scan THEN Message("Scanning...", 0, 0, 0)
                  ELSE IF tree THEN Message("Scanning directory tree...", 0, 0, 0)
                  ELSE status_message
            /\ UNCHANGED <<preview_mode, menu_index, cleanable_items, selected_index,
                           deleting, sort_order, treemap_root, treemap_path_stack,
                           error_message, disk>>

navigate == \E number \in 1..3 : navigate_to_screen(number)

\* the thread of start_async_scan: CleanupScanner::scan_all returns Ok
CleanupScanThread ==
    /\ scan_receiver = Running
    /\ \E items \in ScanResults : scan_receiver' = Sent(items)
    /\ UNCHANGED <<current_screen, previous_screen, preview_mode, menu_index,
                   cleanable_items, selected_index, scanning, deleting, sort_order,
                   treemap_root, treemap_scanning, treemap_path_stack,
                   treemap_receiver, status_message, error_message, disk>>

\* the thread of start_treemap_scan: sends the root, or ends without sending
\* when TreeMapScanner::scan fails
TreemapScanThread ==
    /\ treemap_receiver = Running
    /\ treemap_receiver' \in {Sent(<<"root">>), Disconnected}
    /\ UNCHANGED <<current_screen, previous_screen, preview_mode, menu_index,
                   cleanable_items, selected_index, scanning, deleting, sort_order,
                   scan_receiver, treemap_root, treemap_scanning, treemap_path_stack,
                   status_message, error_message, disk>>

\* DuplicateScanner::calculate_total_duplicates
calculate_total_duplicates(groups) ==
    SumSeq([n \in 1..Len(groups) |-> groups[n].duplicate_size])

\* LargeFileScanner::calculate_total_size
calculate_total_size(items) == SumSeq([n \in 1..Len(items) |-> items[n].size])

\* try_recv on each receiver the App holds; only Ok(value) is acted on
update ==
    LET got_items  == scan_receiver.state = "Sent"
        got_root   == treemap_receiver.state = "Sent"
        got_groups == duplicate_receiver.state = "Sent"
        got_files  == large_files_receiver.state = "Sent"
    IN /\ cleanable_items' = IF got_items THEN scan_receiver.value ELSE cleanable_items
       /\ selected_index' = IF got_items THEN 0 ELSE selected_index
       /\ scanning' = IF got_items THEN FALSE ELSE scanning
       /\ scan_receiver' = IF got_items THEN NoReceiver ELSE scan_receiver
       /\ treemap_root' = IF got_root THEN treemap_receiver.value[1] ELSE treemap_root
       /\ treemap_scanning' = IF got_root THEN FALSE ELSE treemap_scanning
       /\ treemap_receiver' = IF got_root THEN NoReceiver ELSE treemap_receiver
       /\ duplicate_groups' = IF got_groups THEN duplicate_receiver.value
                              ELSE duplicate_groups
       /\ duplicate_scanning' = IF got_groups THEN FALSE ELSE duplicate_scanning
       /\ duplicate_receiver' = IF got_groups THEN NoReceiver ELSE duplicate_receiver
       /\ duplicate_selected_group' = IF got_groups THEN 0 ELSE duplicate_selected_group
       /\ duplicate_selected_file' = IF got_groups THEN 0 ELSE duplicate_selected_file
       /\ large_files' = IF got_files THEN large_files_receiver.value ELSE large_files
       /\ large_files_scanning' = IF got_files THEN FALSE ELSE large_files_scanning
       /\ large_files_receiver' = IF got_files THEN NoReceiver ELSE large_files_receiver
       /\ large_files_selected_index' = IF got_files THEN 0 ELSE large_files_selected_index
       /\ status_message' =
             IF got_files
             THEN Message("Found large files", Len(large_files_receiver.value),
                          calculate_total_size(large_files_receiver.value), 0)
             ELSE IF got_groups
             THEN Message("Found duplicate groups", Len(duplicate_receiver.value),
                          calculate_total_duplicates(duplicate_receiver.value), 0)
             ELSE IF got_root THEN Message("Scan complete", 0, 0, 0)
             ELSE IF got_items THEN Message("Found items", Len(scan_receiver.value), 0, 0)
             ELSE status_message
       /\ UNCHANGED <<current_screen, previous_screen, preview_mode, menu_index,
                      deleting, sort_order, treemap_path_stack, error_message,
                      disk, large_files_min_size, large_files_min_age, orphan_scans>>

go_back ==
    /\ current_screen' = IF previous_screen # None THEN previous_screen ELSE "Home"
    /\ previous_screen' = None
    /\ UNCHANGED <<preview_mode, menu_index, cleanable_items, selected_index, scanning,
                   deleting, sort_order, scan_receiver, treemap_root, treemap_scanning,
                   treemap_path_stack, treemap_receiver, status_message,
                   error_message, disk>>

go_home ==
    /\ current_screen' = "Home"
    /\ previous_screen' = None
    /\ treemap_path_stack' = <<>>
    /\ UNCHANGED <<preview_mode, menu_index, cleanable_items, selected_index, scanning,
                   deleting, sort_order, scan_receiver, treemap_root, treemap_scanning,
                   treemap_receiver, status_message, error_message, disk>>

show_help ==
    /\ previous_screen' = current_screen
    /\ current_screen' = "Help"
    /\ UNCHANGED <<preview_mode, menu_index, cleanable_items, selected_index, scanning,
                   deleting, sort_order, scan_receiver, treemap_root, treemap_scanning,
                   treemap_path_stack, treemap_receiver, status_message,
                   error_message, disk>>

move_up ==
    /\ menu_index' = IF current_screen = "Home" /\ menu_index > 0
                     THEN menu_index - 1 ELSE menu_index
    /\ selected_index' = IF current_screen = "StorageCleanup" /\ selected_index > 0
                         THEN selected_index - 1 ELSE selected_index
    /\ UNCHANGED <<current_screen, previous_screen, preview_mode, cleanable_items,
                   scanning, deleting, sort_order, scan_receiver, treemap_root,
                   treemap_scanning, treemap_path_stack, treemap_receiver,
                   status_message, error_message, disk>>

move_down ==
    /\ menu_index' = IF current_screen = "Home" /\ menu_index < 1
                     THEN menu_index + 1 ELSE menu_index
    /\ selected_index' =
          IF /\ current_screen = "StorageCleanup"
             /\ cleanable_items # <<>>
             /\ selected_index < Len(cleanable_items) - 1
          THEN selected_index + 1 ELSE selected_index
    /\ UNCHANGED <<current_screen, previous_screen, preview_mode, cleanable_items,
                   scanning, deleting, sort_order, scan_receiver, treemap_root,
                   treemap_scanning, treemap_path_stack, treemap_receiver,
                   status_message, error_message, disk>>

\* `index >= n ? index - n : 0`
step_up(index, n) == IF index >= n THEN index - n ELSE 0

\* `(index + n).min(len - 1)` under `!list.is_empty()`
step_down(index, len, n) == IF len > 0 THEN Min(index + n, len - 1) ELSE index

\* the paging handlers write the three cursors alone; the arm for
\* Screen::DiskTreeMap moves treemap_selected_index, which is not kept here
paging_frame ==
    UNCHANGED <<current_screen, previous_screen, preview_mode, cleanable_items,
                scanning, deleting, sort_order, scan_receiver, treemap_root,
                treemap_scanning, treemap_path_stack, treemap_receiver,
                status_message, error_message, disk, duplicate_groups,
                duplicate_scanning, duplicate_selected_group,
                duplicate_selected_file, duplicate_receiver, large_files,
                large_files_scanning, large_files_min_size, large_files_min_age,
                large_files_receiver, orphan_scans>>

\* page_up (n = 10) and jump_up (n = 5)
paged_up(n) ==
    /\ menu_index' = IF current_screen = "Home" THEN 0 ELSE menu_index
    /\ selected_index' = IF current_screen = "StorageCleanup"
                         THEN step_up(selected_index, n) ELSE selected_index
    /\ large_files_selected_index' =
          IF current_screen = "LargeFiles"
          THEN step_up(large_files_selected_index, n) ELSE large_files_selected_index
    /\ paging_frame

\* page_down (n = 10) and jump_down (n = 5)
paged_down(n) ==
    /\ menu_index' = IF current_screen = "Home" THEN 5 ELSE menu_index
    /\ selected_index' =
          IF current_screen = "StorageCleanup"
          THEN step_down(selected_index, Len(cleanable_items), n) ELSE selected_index
    /\ large_files_selected_index' =
          IF current_screen = "LargeFiles"
          THEN step_down(large_files_selected_index, Len(large_files), n)
          ELSE large_files_selected_index
    /\ paging_frame

page_up == paged_up(10)

page_down == paged_down(10)

jump_up == paged_up(5)

jump_down == paged_down(5)

\* the selection handlers write the three lists alone
selection_frame ==
    UNCHANGED <<current_screen, previous_screen, preview_mode, menu_index,
                selected_index, scanning, deleting, sort_order, scan_receiver,
                treemap_root, treemap_scanning, treemap_path_stack,
                treemap_receiver, status_message, error_message, disk,
                duplicate_scanning, duplicate_selected_group,
                duplicate_selected_file, duplicate_receiver, large_files_scanning,
                large_files_selected_index, large_files_min_size,
                large_files_min_age, large_files_receiver, orphan_scans>>

\* items.get_mut(index) is None past the end of the list
toggled(items, index) ==
    [n \in 1..Len(items) |->
        IF n = index + 1 THEN [items[n] EXCEPT !.selected = ~@] ELSE items[n]]

with_selected(items, flag) ==
    [n \in 1..Len(items) |-> [items[n] EXCEPT !.selected = flag]]

duplicate_toggle_selection(groups, group, file) ==
    [g \in 1..Len(groups) |->
        IF g = group + 1 THEN [groups[g] EXCEPT !.files = toggled(@, file)]
        ELSE groups[g]]

\* every file but the last of its group, the newest
duplicate_select_all_but_newest(groups) ==
    [g \in 1..Len(groups) |->
        [groups[g] EXCEPT !.files =
            [n \in 1..Len(@) |-> [@[n] EXCEPT !.selected = (n # Len(groups[g].files))]]]]

duplicate_select_none(groups) ==
    [g \in 1..Len(groups) |-> [groups[g] EXCEPT !.files = with_selected(@, FALSE)]]

toggle_selection ==
    /\ cleanable_items' = IF current_screen = "StorageCleanup"
                          THEN toggled(cleanable_items, selected_index)
                          ELSE cleanable_items
    /\ duplicate_groups' =
          IF current_screen = "DuplicateFinder"
          THEN duplicate_toggle_selection(duplicate_groups, duplicate_selected_group,
                                          duplicate_selected_file)
          ELSE duplicate_groups
    /\ large_files' = IF current_screen = "LargeFiles"
                      THEN toggled(large_files, large_files_selected_index)
                      ELSE large_files
    /\ selection_frame

select_all ==
    /\ cleanable_items' = IF current_screen = "StorageCleanup"
                          THEN with_selected(cleanable_items, TRUE)
                          ELSE cleanable_items
    /\ duplicate_groups' = IF current_screen = "DuplicateFinder"
                           THEN duplicate_select_all_but_newest(duplicate_groups)
                           ELSE duplicate_groups
    /\ large_files' = IF current_screen = "LargeFiles"
                      THEN with_selected(large_files, TRUE)
                      ELSE large_files
    /\ status_message' = IF current_screen = "DuplicateFinder"
                         THEN Message("Selected all duplicates except newest", 0, 0, 0)
                         ELSE status_message
    /\ UNCHANGED <<current_screen, previous_screen, preview_mode, menu_index,
                   selected_index, scanning, deleting, sort_order, scan_receiver,
                   treemap_root, treemap_scanning, treemap_path_stack,
                   treemap_receiver, error_message, disk,
                   duplicate_scanning, duplicate_selected_group,
                   duplicate_selected_file, duplicate_receiver, large_files_scanning,
                   large_files_selected_index, large_files_min_size,
                   large_files_min_age, large_files_receiver, orphan_scans>>

select_none ==
    /\ cleanable_items' = IF current_screen = "StorageCleanup"
                          THEN with_selected(cleanable_items, FALSE)
                          ELSE cleanable_items
    /\ duplicate_groups' = IF current_screen = "DuplicateFinder"
                           THEN duplicate_select_none(duplicate_groups)
                           ELSE duplicate_groups
    /\ large_files' = IF current_screen = "LargeFiles"
                      THEN with_selected(large_files, FALSE)
                      ELSE large_files
    /\ selection_frame

next_sort_order(order) ==
    CASE order = "None"     -> "SizeDesc"
      [] order = "SizeDesc" -> "SizeAsc"
      [] order = "SizeAsc"  -> "None"

apply_sort(order, items) ==
    CASE order = "None"     -> items
      [] order = "SizeDesc" -> StableSort(items, [n \in 1..Len(items) |-> 0 - items[n].size])
      [] order = "SizeAsc"  -> StableSort(items, [n \in 1..Len(items) |-> items[n].size])

toggle_sort ==
    IF current_screen # "StorageCleanup"
    THEN UNCHANGED appVars
    ELSE /\ sort_order' = next_sort_order(sort_order)
         /\ cleanable_items' = apply_sort(sort_order', cleanable_items)
         /\ selected_index' = IF cleanable_items # <<>> THEN 0 ELSE selected_index
         /\ status_message' = Message("Sort", 0, 0, 0)
         /\ UNCHANGED <<current_screen, previous_screen, preview_mode, menu_index,
                        scanning, deleting, scan_receiver, treemap_root,
                        treemap_scanning, treemap_path_stack, treemap_receiver,
                        error_message, disk>>

\* the files of all groups, in the order the nested loops visit them
group_files(groups) == Flatten([g \in 1..Len(groups) |-> groups[g].files])

duplicate_delete_selected ==
    LET files == group_files(duplicate_groups)
        r == delete_loop(files, 1,
                 [fs |-> disk, log |-> <<>>, deleted_count |-> 0, failed_count |-> 0])
        total_size == get_selected_size(files)
        kept == SelectSeq([g \in 1..Len(duplicate_groups) |->
                              [duplicate_groups[g] EXCEPT !.files = retain_unselected(@)]],
                          LAMBDA group : Len(group.files) >= 2)
        selected_group == IF duplicate_selected_group >= Len(kept)
                          THEN Max(Len(kept) - 1, 0) ELSE duplicate_selected_group
    IN /\ disk' = r.fs
       /\ fs_log' = r.log
       /\ duplicate_groups' = kept
       /\ duplicate_selected_group' = selected_group
       /\ duplicate_selected_file' =
             IF /\ selected_group < Len(kept)
                /\ duplicate_selected_file >= Len(kept[selected_group + 1].files)
             THEN Max(Len(kept[selected_group + 1].files) - 1, 0)
             ELSE duplicate_selected_file
       /\ status_message' =
             Message(IF r.failed_count > 0 THEN "Deleted files" ELSE "Deleted duplicate files",
                     r.deleted_count, total_size, r.failed_count)
       /\ UNCHANGED <<current_screen, previous_screen, preview_mode, menu_index,
                      cleanable_items, selected_index, scanning, deleting, sort_order,
                      scan_receiver, treemap_root, treemap_scanning,
                      treemap_path_stack, treemap_receiver, error_message,
                      duplicate_scanning, duplicate_receiver, large_files,
                      large_files_scanning, large_files_selected_index,
                      large_files_min_size, large_files_min_age,
                      large_files_receiver, orphan_scans>>

large_files_delete_selected ==
    LET r == delete_loop(large_files, 1,
                 [fs |-> disk, log |-> <<>>, deleted_count |-> 0, failed_count |-> 0])
        total_size == get_selected_size(large_files)
        kept == retain_unselected(large_files)
    IN /\ disk' = r.fs
       /\ fs_log' = r.log
       /\ large_files' = kept
       /\ large_files_selected_index' =
             IF large_files_selected_index >= Len(kept) /\ kept # <<>>
             THEN Len(kept) - 1 ELSE large_files_selected_index
       /\ status_message' =
             Message(IF r.failed_count > 0 THEN "Deleted files" ELSE "Deleted large files",
                     r.deleted_count, total_size, r.failed_count)
       /\ UNCHANGED <<current_screen, previous_screen, preview_mode, menu_index,
                      cleanable_items, selected_index, scanning, deleting, sort_order,
                      scan_receiver, treemap_root, treemap_scanning,
                      treemap_path_stack, treemap_receiver, error_message,
                      duplicate_groups, duplicate_scanning, duplicate_selected_group,
                      duplicate_selected_file, duplicate_receiver,
                      large_files_scanning, large_files_min_size,
                      large_files_min_age, large_files_receiver, orphan_scans>>

delete_selected ==
    LET selected_count == selected_count_of(cleanable_items)
        total_size == get_selected_size(cleanable_items)
        unchanged == UNCHANGED <<current_screen, previous_screen, preview_mode,
                                 menu_index, scanning, sort_order, scan_receiver,
                                 treemap_root, treemap_scanning, treemap_path_stack,
                                 treemap_receiver, listVars>>
    IN
    IF current_screen = "DuplicateFinder" THEN duplicate_delete_selected
    ELSE IF current_screen = "LargeFiles" THEN large_files_delete_selected
    ELSE IF current_screen # "StorageCleanup"
    THEN /\ fs_log' = <<>>
         /\ unchanged
         /\ UNCHANGED <<cleanable_items, selected_index, deleting, status_message,
                        error_message, disk>>
    ELSE IF selected_count = 0
    THEN /\ error_message' = Message("No items selected", 0, 0, 0)
         /\ fs_log' = <<>>
         /\ unchanged
         /\ UNCHANGED <<cleanable_items, selected_index, deleting, status_message, disk>>
    ELSE IF preview_mode
    THEN /\ deleting' = FALSE
         /\ status_message' = Message("Preview mode: Would delete", selected_count, total_size, 0)
         /\ error_message' = NoMessage
         /\ fs_log' = <<>>
         /\ unchanged
         /\ UNCHANGED <<cleanable_items, selected_index, disk>>
    ELSE LET r == delete_loop(cleanable_items, 1,
                      [fs |-> disk, log |-> <<>>, deleted_count |-> 0, failed_count |-> 0])
             kept == retain_unselected(cleanable_items)
         IN /\ disk' = r.fs
            /\ fs_log' = r.log
            /\ cleanable_items' = kept
            /\ selected_index' = IF selected_index >= Len(kept) /\ kept # <<>>
                                 THEN Len(kept) - 1 ELSE selected_index
            /\ status_message' = Message("Deleted", r.deleted_count, total_size, r.failed_count)
            /\ error_message' = NoMessage
            /\ deleting' = FALSE
            /\ unchanged

confirm_action ==
    CASE current_screen = "Home" ->
            navigate_to_screen(menu_index + 1) /\ fs_log' = <<>> /\ UNCHANGED listVars
      [] current_screen = "StorageCleanup" /\ cleanable_items # <<>> -> delete_selected
      [] OTHER -> UNCHANGED <<appVars, listVars>> /\ fs_log' = <<>>

\* the most large-file scan threads that outlive their receiver
MaxOrphanScans == 2

\* start_large_files_scan: the receiver of a scan still running is replaced,
\* its thread runs on
start_large_files_scan ==
    /\ large_files_scanning' = TRUE
    /\ status_message' = Message("Scanning for large files...", 0, 0, 0)
    /\ orphan_scans' = orphan_scans + (IF large_files_receiver = Running THEN 1 ELSE 0)
    /\ large_files_receiver' = Running

large_files_set_min_size(size_mb) ==
    /\ large_files_min_size' = size_mb * 1024 * 1024
    /\ large_files' = <<>>
    /\ start_large_files_scan
    /\ UNCHANGED <<current_screen, previous_screen, preview_mode, menu_index,
                   cleanable_items, selected_index, scanning, deleting, sort_order,
                   scan_receiver, treemap_root, treemap_scanning,
                   treemap_path_stack, treemap_receiver, error_message, disk,
                   duplicate_groups, duplicate_scanning, duplicate_selected_group,
                   duplicate_selected_file, duplicate_receiver,
                   large_files_selected_index, large_files_min_age>>

large_files_set_min_age(days) ==
    /\ large_files_min_age' = days
    /\ large_files' = <<>>
    /\ start_large_files_scan
    /\ UNCHANGED <<current_screen, previous_screen, preview_mode, menu_index,
                   cleanable_items, selected_index, scanning, deleting, sort_order,
                   scan_receiver, treemap_root, treemap_scanning,
                   treemap_path_stack, treemap_receiver, error_message, disk,
                   duplicate_groups, duplicate_scanning, duplicate_selected_group,
                   duplicate_selected_file, duplicate_receiver,
                   large_files_selected_index, large_files_min_size>>

set_min_size ==
    /\ orphan_scans < MaxOrphanScans
    /\ \E size_mb \in {1, 100} : large_files_set_min_size(size_mb)

set_min_age ==
    /\ orphan_scans < MaxOrphanScans
    /\ \E days \in {0, 30} : large_files_set_min_age(days)

\* the newest thread of start_large_files_scan: LargeFileScanner::scan returns
\* Ok and the result is sent
LargeFilesScanThread ==
    /\ large_files_receiver = Running
    /\ \E files \in LargeFileResults : large_files_receiver' = Sent(files)
    /\ UNCHANGED <<appVars, duplicate_groups, duplicate_scanning,
                   duplicate_selected_group, duplicate_selected_file,
                   duplicate_receiver, large_files, large_files_scanning,
                   large_files_selected_index, large_files_min_size,
                   large_files_min_age, orphan_scans>>

\* a thread whose receiver was replaced: tx.send fails and the error is dropped
OrphanScanThread ==
    /\ orphan_scans > 0
    /\ orphan_scans' = orphan_scans - 1
    /\ UNCHANGED <<appVars, duplicate_groups, duplicate_scanning,
                   duplicate_selected_group, duplicate_selected_file,
                   duplicate_receiver, large_files, large_files_scanning,
                   large_files_selected_index, large_files_min_size,
                   large_files_min_age, large_files_receiver>>

\* the App on one of its three list screens, the scan of that screen received
ListScreens == {"StorageCleanup", "DuplicateFinder", "LargeFiles"}

BatchInit ==
    /\ current_screen \in ListScreens
    /\ previous_screen = "Home"
    /\ preview_mode \in BOOLEAN
    /\ menu_index = 0
    /\ cleanable_items \in IF current_screen = "StorageCleanup"
                            THEN ScanResults ELSE {<<>>}
    /\ selected_index = 0
    /\ scanning = FALSE
    /\ deleting = FALSE
    /\ sort_order = "None"
    /\ scan_receiver = NoReceiver
    /\ treemap_root = None
    /\ treemap_scanning = FALSE
    /\ treemap_path_stack = <<>>
    /\ treemap_receiver = NoReceiver
    /\ error_message = NoMessage
    /\ disk = DiskInit
    /\ duplicate_groups \in IF current_screen = "DuplicateFinder"
                             THEN DuplicateResults ELSE {<<>>}
    /\ duplicate_scanning = FALSE
    /\ duplicate_selected_group = 0
    /\ duplicate_selected_file = 0
    /\ duplicate_receiver = NoReceiver
    /\ large_files \in IF current_screen = "LargeFiles"
                        THEN LargeFileResults ELSE {<<>>}
    /\ large_files_scanning = FALSE
    /\ large_files_selected_index = 0
    /\ large_files_min_size = 1024 * 1024 * 100
    /\ large_files_min_age = 0
    /\ large_files_receiver = NoReceiver
    /\ orphan_scans = 0
    /\ status_message =
          CASE current_screen = "StorageCleanup" ->
                  Message("Found items", Len(cleanable_items), 0, 0)
            [] current_screen = "DuplicateFinder" ->
                  Message("Found duplicate groups", Len(duplicate_groups),
                          calculate_total_duplicates(duplicate_groups), 0)
            [] current_screen = "LargeFiles" ->
                  Message("Found large files", Len(large_files),
                          calculate_total_size(large_files), 0)
    /\ fs_log = <<>>

(***************************************************************************)
(* Specifications: one per component, the other components standing idle.  *)
(***************************************************************************)
SanNext ==
    \/ SanitizeCall /\ UNCHANGED <<dupVars, lfVars, tmVars, clVars, appVars, listVars, fs_log>>
    \/ SanitizeAgain /\ UNCHANGED <<dupVars, lfVars, tmVars, clVars, appVars, listVars, fs_log>>

SpecSanInit == SanInit /\ DupIdle /\ LfIdle /\ TmIdle /\ ClIdle /\ AppIdle

SpecSan == SpecSanInit /\ [][SanNext]_vars

DupNext == DupScan /\ UNCHANGED <<sanVars, lfVars, tmVars, clVars, appVars, listVars, fs_log>>

SpecDupInit == DupInit /\ SanIdle /\ LfIdle /\ TmIdle /\ ClIdle /\ AppIdle

SpecDup == SpecDupInit /\ [][DupNext]_vars

LfNext == LfScan /\ UNCHANGED <<sanVars, dupVars, tmVars, clVars, appVars, listVars, fs_log>>

SpecLargeInit == LfInit /\ SanIdle /\ DupIdle /\ TmIdle /\ ClIdle /\ AppIdle

SpecLarge == SpecLargeInit /\ [][LfNext]_vars

TmNext == TmScan /\ UNCHANGED <<sanVars, dupVars, lfVars, clVars, appVars, listVars, fs_log>>

SpecTreeInit == TmInit /\ SanIdle /\ DupIdle /\ LfIdle /\ ClIdle /\ AppIdle

SpecTree == SpecTreeInit /\ [][TmNext]_vars

ClNext == ClScan /\ UNCHANGED <<sanVars, dupVars, lfVars, tmVars, appVars, listVars, fs_log>>

SpecCleanupInit == ClInit /\ SanIdle /\ DupIdle /\ LfIdle /\ TmIdle /\ AppIdle

SpecCleanup == SpecCleanupInit /\ [][ClNext]_vars

AllNext == AllScan /\ UNCHANGED <<sanVars, dupVars, lfVars, tmVars, appVars, listVars, fs_log>>

SpecAllInit == AllInit /\ SanIdle /\ DupIdle /\ LfIdle /\ TmIdle /\ AppIdle

SpecAll == SpecAllInit /\ [][AllNext]_vars

\* a handler that issues no filesystem call
no_fs_calls == fs_log' = <<>>

\* a step of the App leaves the stand-alone components alone
scanners_idle == UNCHANGED <<sanVars, dupVars, lfVars, tmVars, clVars>>

\* a handler that touches neither the duplicate nor the large-file screen
app_only == scanners_idle /\ UNCHANGED listVars

Next ==
    \/ navigate /\ no_fs_calls /\ app_only
    \/ CleanupScanThread /\ no_fs_calls /\ app_only
    \/ TreemapScanThread /\ no_fs_calls /\ app_only
    \/ update /\ no_fs_calls /\ scanners_idle
    \/ go_back /\ no_fs_calls /\ app_only
    \/ go_home /\ no_fs_calls /\ app_only
    \/ show_help /\ no_fs_calls /\ app_only
    \/ move_up /\ no_fs_calls /\ app_only
    \/ move_down /\ no_fs_calls /\ app_only
    \/ toggle_selection /\ no_fs_calls /\ scanners_idle
    \/ select_all /\ no_fs_calls /\ scanners_idle
    \/ select_none /\ no_fs_calls /\ scanners_idle
    \/ toggle_sort /\ no_fs_calls /\ app_only
    \/ delete_selected /\ scanners_idle
    \/ confirm_action /\ scanners_idle

Init == AppInit /\ SanIdle /\ DupIdle /\ LfIdle /\ TmIdle /\ ClIdle

Spec == Init /\ [][Next]_vars

\* the scans the App starts and polls: run_app calls update on every turn of
\* its loop, and a spawned thread runs to its end
PollStep == update /\ no_fs_calls /\ scanners_idle

CleanupThreadStep == CleanupScanThread /\ no_fs_calls /\ app_only

TreemapThreadStep == TreemapScanThread /\ no_fs_calls /\ app_only

LargeFilesThreadStep == LargeFilesScanThread /\ no_fs_calls /\ scanners_idle

OrphanThreadStep == OrphanScanThread /\ no_fs_calls /\ scanners_idle

ScansNext ==
    \/ navigate /\ no_fs_calls /\ app_only
    \/ set_min_size /\ no_fs_calls /\ scanners_idle
    \/ set_min_age /\ no_fs_calls /\ scanners_idle
    \/ CleanupScanThread /\ no_fs_calls /\ app_only
    \/ TreemapScanThread /\ no_fs_calls /\ app_only
    \/ LargeFilesScanThread /\ no_fs_calls /\ scanners_idle
    \/ OrphanScanThread /\ no_fs_calls /\ scanners_idle
    \/ update /\ no_fs_calls /\ scanners_idle

SpecScansInit == AppIdle /\ SanIdle /\ DupIdle /\ LfIdle /\ TmIdle /\ ClIdle

SpecScans ==
    /\ SpecScansInit
    /\ [][ScansNext]_vars
    /\ WF_vars(PollStep)
    /\ WF_vars(CleanupThreadStep)
    /\ WF_vars(TreemapThreadStep)
    /\ WF_vars(LargeFilesThreadStep)
    /\ WF_vars(OrphanThreadStep)

BatchNext ==
    \/ toggle_selection /\ no_fs_calls /\ scanners_idle
    \/ select_all /\ no_fs_calls /\ scanners_idle
    \/ select_none /\ no_fs_calls /\ scanners_idle
    \/ delete_selected /\ scanners_idle

SpecBatchInit == BatchInit /\ SanIdle /\ DupIdle /\ LfIdle /\ TmIdle /\ ClIdle

SpecBatch == SpecBatchInit /\ [][BatchNext]_vars

\* the keys of main.rs that move a cursor or change what a cursor points
\* into, PageUp, PageDown, Ctrl-U and Ctrl-D among them
PagingNext ==
    \/ navigate /\ no_fs_calls /\ app_only
    \/ CleanupScanThread /\ no_fs_calls /\ app_only
    \/ update /\ no_fs_calls /\ scanners_idle
    \/ go_home /\ no_fs_calls /\ app_only
    \/ move_up /\ no_fs_calls /\ app_only
    \/ move_down /\ no_fs_calls /\ app_only
    \/ page_up /\ no_fs_calls /\ scanners_idle
    \/ page_down /\ no_fs_calls /\ scanners_idle
    \/ jump_up /\ no_fs_calls /\ scanners_idle
    \/ jump_down /\ no_fs_calls /\ scanners_idle
    \/ toggle_selection /\ no_fs_calls /\ scanners_idle
    \/ toggle_sort /\ no_fs_calls /\ app_only
    \/ delete_selected /\ scanners_idle
    \/ confirm_action /\ scanners_idle

SpecPagingInit == AppIdle /\ SanIdle /\ DupIdle /\ LfIdle /\ TmIdle /\ ClIdle

SpecPaging == SpecPagingInit /\ [][PagingNext]_vars

(***************************************************************************)
(* Claims about the deletion workflow of the App (checked under Spec).     *)
(***************************************************************************)
IsRemoval(call) == call.op \in {"remove_file", "remove_dir_all"}

\* C1: within a deletion, remove_file or remove_dir_all is issued for a path
\* only after sanitize_path has succeeded on that same path; no path is
\* removed without having passed validation.
C1_RemovalOnlyAfterSanitize ==
    \A i \in 1..Len(fs_log) :
        IsRemoval(fs_log[i]) =>
            \E j \in 1..(i - 1) :
                /\ fs_log[j].op = "sanitize_path"
                /\ fs_log[j].path = fs_log[i].path
                /\ fs_log[j].ok

(***************************************************************************)
(* Claims about sanitize_path (checked under SpecSan).                     *)
(***************************************************************************)
SanDone == san_result # Pending

SanExpanded == expand_home(san_path, home_dir)

\* the input resolves: canonicalize() of the expanded path succeeds
SanResolves == SanExpanded.status = "Ok" /\ canonicalize(SanExpanded.path).ok

SanCanonical == canonicalize(SanExpanded.path).path

\* p equals a blacklist entry, or starts with an entry followed by '/'
UnderBlacklist(p, home) ==
    \E i \in 1..Len(BLACKLISTED_PATHS) :
        LET b == BLACKLISTED_PATHS[i] IN
        IF b[1] = "~"
        THEN home # <<>> /\ IsPrefix(home \o Tail(b), p)
        ELSE IsPrefix(b, p)

\* where the input is located once symbolic links and relative segments are
\* resolved: its canonical form, or for a name that does not exist yet, that
\* name below the canonical form of its parent
SanLocated ==
    /\ SanExpanded.status = "Ok"
    /\ \/ canonicalize(SanExpanded.path).ok
       \/ /\ HasParent(SanExpanded.path)
          /\ canonicalize(parent(SanExpanded.path)).ok
          /\ SanExpanded.path[Len(SanExpanded.path)] \notin {".", ".."}

SanLocation ==
    IF canonicalize(SanExpanded.path).ok THEN SanCanonical
    ELSE Append(canonicalize(parent(SanExpanded.path)).path,
                SanExpanded.path[Len(SanExpanded.path)])

SanAgeDays == Max(file_age, 0) \div SecsPerDay

\* C2: whatever the configuration, a path whose canonical form equals a
\* blacklist entry or lies below one is rejected with the reason Blacklisted,
\* also when the file is too recent (the blacklist is checked before the age).
C2_BlacklistedWhateverTheAge ==
    (SanDone /\ SanResolves /\ UnderBlacklist(SanCanonical, home_dir))
        => san_result.status = "Blacklisted"

\* a blacklisted existing path, age protection on, too recent: rejected as Blacklisted
C2_Witness ==
    /\ SanDone /\ SanResolves /\ UnderBlacklist(SanCanonical, home_dir)
    /\ sanitizer.enforce_age_protection
    /\ SanAgeDays < sanitizer.min_age_days
    /\ san_result.status = "Blacklisted"

\* C3: every input located under a blacklisted directory once symbolic links
\* and relative segments are resolved is rejected, on the fallback branch
\* (missing name, existing parent) as on the canonical one.
C3_LocatedUnderBlacklistRejected ==
    (SanDone /\ SanLocated /\ UnderBlacklist(SanLocation, home_dir))
        => san_result.status # "Ok"

\* C4 as stated: with age protection on, an existing path outside the
\* blacklist fails with TooRecent exactly when floor((now - mtime) / 86400) is
\* below min_age_days and succeeds otherwise; with age protection off it
\* succeeds; for a path that does not exist the age check is skipped.
C4_AgeProtectionAsStated ==
    /\ (SanDone /\ SanResolves /\ ~UnderBlacklist(SanCanonical, home_dir))
          => IF sanitizer.enforce_age_protection
                /\ file_age \div SecsPerDay < sanitizer.min_age_days
             THEN san_result.status = "TooRecent"
             ELSE san_result.status = "Ok"
    /\ (SanDone /\ ~SanResolves) => san_result.status # "TooRecent"

\* C4 amended: the same, with the age taken as zero when the modification
\* time lies in the future, and provided the home directory can be determined
\* (the blacklist check needs it to expand its "~/" entries).
C4_AgeProtection ==
    /\ (SanDone /\ SanResolves /\ ~UnderBlacklist(SanCanonical, home_dir)
        /\ home_dir # <<>>)
          => IF sanitizer.enforce_age_protection
                /\ Max(file_age, 0) \div SecsPerDay < sanitizer.min_age_days
             THEN san_result.status = "TooRecent"
             ELSE san_result = Ok(SanCanonical)
    /\ (SanDone /\ ~SanResolves) => san_result.status # "TooRecent"

\* an existing path outside the blacklist rejected as too recent
C4_Witness ==
    /\ SanDone /\ SanResolves /\ ~UnderBlacklist(SanCanonical, home_dir)
    /\ sanitizer.enforce_age_protection
    /\ san_result.status = "TooRecent"

(***************************************************************************)
(* Claims about DuplicateScanner::scan (checked under SpecDup).            *)
(***************************************************************************)
DupDone == dup_result.status = "Ok"

DupGroups == dup_result.groups

\* the groups a file of the tree is a member of
GroupsOf(path) ==
    { k \in 1..Len(DupGroups) :
        \E n \in 1..Len(DupGroups[k].files) : DupGroups[k].files[n].path = path }

SameGroup(p, q) == GroupsOf(p) \cap GroupsOf(q) # {}

\* the files of the walk that are at least min_size long
DupCandidates == { i \in 1..Len(dup_tree) : dup_tree[i].len >= dup_scanner.min_size }

\* C5: every group returned has at least 2 members, and all its members have
\* the same byte size and the same content hash, the group's hash.
C5_GroupsOfOneSizeAndHash ==
    DupDone =>
        \A k \in 1..Len(DupGroups) :
            LET files == DupGroups[k].files IN
            /\ Len(files) >= 2
            /\ \A n \in 1..Len(files) :
                  /\ dup_tree[files[n].path].len = dup_tree[files[1].path].len
                  /\ files[n].size = files[1].size
                  /\ hash_file(dup_tree, files[n].path, sha_collisions) = DupGroups[k].hash

\* C6: for every group returned, total_size is the size of one member times
\* the number of members, and the wasted size is total_size minus the size of
\* one member.
C6_TotalAndWastedSize ==
    DupDone =>
        \A k \in 1..Len(DupGroups) :
            LET g == DupGroups[k] IN
            \E n \in 1..Len(g.files) :
                /\ g.total_size = g.files[n].size * Len(g.files)
                /\ g.duplicate_size = g.total_size - g.files[n].size

\* two byte-identical candidates and no other candidate
DupScenarioA ==
    /\ Cardinality(DupCandidates) = 2
    /\ \A i, j \in DupCandidates : content(dup_tree[i]) = content(dup_tree[j])

DupScenarioAResult ==
    /\ Len(DupGroups) = 1
    /\ Len(DupGroups[1].files) = 2
    /\ \A i \in DupCandidates : DupGroups[1].duplicate_size = dup_tree[i].len

\* C7 as stated: for a readable tree, two candidate files are members of the
\* same group if and only if they have identical content; a file is a member of at most one
\* group; two byte-identical candidates alone give one group of 2 members
\* whose wasted size is the size of one file.
C7_SameGroupIffSameContent ==
    (DupDone /\ dup_unreadable = {}) =>
        /\ \A i, j \in DupCandidates :
              i # j => (SameGroup(i, j) <=> content(dup_tree[i]) = content(dup_tree[j]))
        /\ \A i \in 1..Len(dup_tree) : Cardinality(GroupsOf(i)) <= 1
        /\ DupScenarioA => DupScenarioAResult

\* C7 amended: for a readable tree, two candidate files are members of the
\* same group if they have identical content, and only if they have the same content hash; the rest
\* as stated.
C7_SameContentSameGroup ==
    (DupDone /\ dup_unreadable = {}) =>
        /\ \A i, j \in DupCandidates :
              i # j =>
                 /\ content(dup_tree[i]) = content(dup_tree[j]) => SameGroup(i, j)
                 /\ SameGroup(i, j) =>
                       hash_file(dup_tree, i, sha_collisions)
                           = hash_file(dup_tree, j, sha_collisions)
        /\ \A i \in 1..Len(dup_tree) : Cardinality(GroupsOf(i)) <= 1
        /\ DupScenarioA => DupScenarioAResult

\* scenario A has been scanned: two identical files, one group of both
C7_Witness ==
    /\ DupDone /\ dup_unreadable = {} /\ DupScenarioA /\ DupScenarioAResult
    /\ \A i, j \in DupCandidates : SameGroup(i, j)

\* C8: the members of every group are ordered oldest first, and the groups
\* by wasted size, largest first.
C8_MembersAndGroupsOrdered ==
    DupDone =>
        /\ \A k \in 1..Len(DupGroups) :
              \A n \in 1..(Len(DupGroups[k].files) - 1) :
                  DupGroups[k].files[n].modified <= DupGroups[k].files[n + 1].modified
        /\ \A k \in 1..(Len(DupGroups) - 1) :
              DupGroups[k].duplicate_size >= DupGroups[k + 1].duplicate_size

\* two groups of different wasted size, the first with members of different age
C8_Witness ==
    /\ DupDone
    /\ Len(DupGroups) >= 2
    /\ DupGroups[1].duplicate_size > DupGroups[2].duplicate_size
    /\ DupGroups[1].files[1].modified < DupGroups[1].files[2].modified

\* the positions in dup_result.calls of the calls of one kind
CallsOf(call) ==
    { n \in 1..Len(dup_result.calls) : dup_result.calls[n].call = call }

\* the files hash_file was called on
DupOpened == { dup_result.calls[n].path : n \in CallsOf("hash_file") }

\* the candidates of the size of the file at `path`: its size bucket
Bucket(path) == { i \in DupCandidates : dup_tree[i].len = dup_tree[path].len }

\* C22: hash_file is called only after the walk that groups the files by size
\* is over, and only on files of size >= min_size whose size bucket has at
\* least 2 members; a file of unique size or below min_size is never opened.
C22_HashOnlyAfterSizeGrouping ==
    DupDone =>
        \A n \in CallsOf("hash_file") :
            LET path == dup_result.calls[n].path IN
            /\ \A m \in CallsOf("metadata") : m < n
            /\ dup_tree[path].len >= dup_scanner.min_size
            /\ Cardinality(Bucket(path)) >= 2

\* a scan that hashed the files of one bucket and left a candidate of unique
\* size unopened
C22_Witness ==
    /\ DupDone
    /\ DupOpened # {}
    /\ \E i \in DupCandidates : Cardinality(Bucket(i)) = 1 /\ i \notin DupOpened

\* the members of a bucket whose hash was computed
Hashed(path) == { i \in Bucket(path) : hash_file_ok(dup_unreadable, i) }

\* a bucket with two successfully hashed files of equal hash
HasEqualPair(path) ==
    \E i, j \in Hashed(path) :
        /\ i # j
        /\ hash_file(dup_tree, i, sha_collisions) = hash_file(dup_tree, j, sha_collisions)

\* C23: when hash_file fails on a file, scan still returns Ok, the file is in
\* no group, the other members of its bucket that have equal hashes are in one
\* group, and no member of a bucket left without two successfully hashed
\* files of equal hash is in a group.
C23_HashFailureExcludesOnlyTheFile ==
    (dup_result # DupPending /\ dup_unreadable # {}) =>
        /\ DupDone
        /\ \A u \in dup_unreadable : GroupsOf(u) = {}
        /\ \A u \in dup_unreadable \cap DupCandidates :
              /\ \A i, j \in Hashed(u) :
                    (i # j /\ hash_file(dup_tree, i, sha_collisions)
                                = hash_file(dup_tree, j, sha_collisions))
                        => SameGroup(i, j)
              /\ ~HasEqualPair(u) => \A i \in Bucket(u) : GroupsOf(i) = {}

(***************************************************************************)
(* Claims about LargeFileScanner::scan (checked under SpecLarge).          *)
(***************************************************************************)
LfDone == lf_result.status = "Ok"

LfItems == lf_result.items

\* C9: every entry returned has size >= min_size and, when min_age_days > 0,
\* age_days >= min_age_days, also for a file whose modification time cannot
\* be read or lies in the future.
C9_EntriesMeetThresholds ==
    LfDone =>
        \A n \in 1..Len(LfItems) :
            /\ LfItems[n].size >= lf_scanner.min_size
            /\ lf_scanner.min_age_days > 0
                  => LfItems[n].age_days >= lf_scanner.min_age_days

\* a file meets the thresholds: it is at least min_size long and, when
\* min_age_days > 0, at least min_age_days whole days old
MeetsThresholds(file) ==
    /\ file.size >= lf_scanner.min_size
    /\ lf_scanner.min_age_days > 0
          => (file.mtime_ok /\ file.age \div SecsPerDay >= lf_scanner.min_age_days)

\* C10: the list returned is ordered by size, largest first, and holds every
\* file of the tree that meets the thresholds exactly once.
C10_SortedAndComplete ==
    LfDone =>
        /\ \A n \in 1..(Len(LfItems) - 1) : LfItems[n].size >= LfItems[n + 1].size
        /\ \A i \in 1..Len(lf_tree) :
              MeetsThresholds(lf_tree[i])
                  => Cardinality({ n \in 1..Len(LfItems) : LfItems[n].path = i }) = 1

\* the file at position i of the walk is among the entries returned
LfReturned(i) == \E n \in 1..Len(LfItems) : LfItems[n].path = i

\* C24: with min_age_days > 0, a file of size >= min_size whose modification
\* time can be read is returned if and only if it was modified at or before
\* now - min_age_days days; a file modified exactly at the cutoff is returned.
C24_CutoffInstantIsIncluded ==
    (LfDone /\ lf_scanner.min_age_days > 0) =>
        \A i \in 1..Len(lf_tree) :
            (lf_tree[i].size >= lf_scanner.min_size /\ lf_tree[i].mtime_ok) =>
                (LfReturned(i) <=>
                    lf_tree[i].age >= lf_scanner.min_age_days * SecsPerDay)

(***************************************************************************)
(* Claims about TreeMapScanner::scan (checked under SpecTree).             *)
(***************************************************************************)
TmDone == tm_result.status = "Ok"

\* every node of a tree, the root included
RECURSIVE TmNodes(_)
TmNodes(item) ==
    {item} \cup UNION { TmNodes(item.children[n]) : n \in 1..Len(item.children) }

\* the sum over the leaves of the expanded subtree of a node
RECURSIVE TmLeafSum(_)
TmLeafSum(item) ==
    IF item.children = <<>> THEN item.size
    ELSE SumSeq([n \in 1..Len(item.children) |-> TmLeafSum(item.children[n])])

\* the immediate entries of a directory, as the filesystem holds them
TmEntries(path) ==
    { q \in DOMAIN tm_fs : Len(q) = Len(path) + 1 /\ IsPrefix(path, q) }

RECURSIVE SumLen(_)
SumLen(paths) ==
    IF paths = {} THEN 0
    ELSE LET q == CHOOSE q \in paths : TRUE IN tm_fs[q].len + SumLen(paths \ {q})

\* the one-level sum of a directory: the lengths of the entries it lists
\* (a directory that cannot be listed yields none)
TmOneLevelSum(path) == IF tm_fs[path].readable THEN SumLen(TmEntries(path)) ELSE 0

\* C11: every expanded directory node (within the depth cap) has the sum of
\* its direct children's sizes as size, hence the sum over its expanded
\* subtree; every directory node beyond the cap has no children and the
\* one-level sum of its immediate entries as size.
C11_DirectorySizesAreSums ==
    TmDone =>
        \A node \in TmNodes(tm_result.item) :
            ~node.is_file =>
                IF Len(node.path) <= TreeMaxDepth
                THEN /\ node.size = SumSeq([n \in 1..Len(node.children) |->
                                               node.children[n].size])
                     /\ node.size = TmLeafSum(node)
                ELSE /\ node.children = <<>>
                     /\ node.size = TmOneLevelSum(node.path)

\* a scan that reached the cap: a directory beyond it with a size of its own
\* below an expanded directory of two children
C11_Witness ==
    /\ TmDone
    /\ \E node \in TmNodes(tm_result.item) :
          ~node.is_file /\ Len(node.path) > TreeMaxDepth /\ node.size > 0
    /\ \E node \in TmNodes(tm_result.item) :
          Len(node.path) = TreeMaxDepth /\ Len(node.children) = 2

\* the filesystem without its entries whose name starts with '.'
TmWithoutHidden ==
    [p \in { q \in DOMAIN tm_fs : q = <<>> \/ ~is_hidden(q) } |-> tm_fs[p]]

\* C12: entries whose name starts with '.' never appear as nodes and add
\* nothing to the size of any node, the one-level size of a directory at the
\* depth cap included: the scan gives what it gives without them.
C12_HiddenEntriesExcluded ==
    TmDone =>
        /\ \A node \in TmNodes(tm_result.item) :
              node.path = <<>> \/ ~is_hidden(node.path)
        /\ tm_result.item = TreeMapScanner_scan(TmWithoutHidden, tm_order).item

\* C25: with the root at level 0, only a directory below level 3 is expanded
\* into child nodes; a directory at level 3 is a childless non-file node whose
\* size is the one-level sum of its immediate entries, so no node of the tree
\* returned is deeper than level 3.
C25_NoNodeBelowLevelThree ==
    TmDone =>
        \A node \in TmNodes(tm_result.item) :
            /\ Len(node.path) <= TreeMaxDepth
            /\ node.children # <<>> => Len(node.path) < TreeMaxDepth
            /\ (~node.is_file /\ Len(node.path) = TreeMaxDepth) =>
                  /\ node.children = <<>>
                  /\ node.size = TmOneLevelSum(node.path)

\* C26: a child directory whose metadata can be read but whose entries cannot
\* be listed is skipped: it is no node of the tree returned, not even an
\* empty one of size 0.
C26_UnreadableChildSkipped ==
    TmDone =>
        \A node \in TmNodes(tm_result.item) :
            (node.path # <<>> /\ tm_fs[node.path].is_dir)
                => tm_fs[node.path].readable

(***************************************************************************)
(* Claims about a scan of a root that cannot be scanned.                   *)
(***************************************************************************)
\* C13: when the root path handed to scan does not exist or cannot be read,
\* the invocation returns an error, not an empty or partial Ok result (here
\* for the large-file scanner).
C13_BadRootIsAnError ==
    (lf_result # LfPending /\ lf_root # "dir") => lf_result.status = "Err"

(***************************************************************************)
(* Claims about the background scans of the App (checked under SpecScans). *)
(***************************************************************************)
\* C14: once a background scan has been started, the polling of App::update
\* eventually observes its outcome and clears the scanning flag, on completion
\* and on failure alike (here for the directory-tree scan).
C14_TreeScanEventuallyObserved == treemap_scanning ~> ~treemap_scanning

\* the scan threads of one kind that have been spawned and have not ended
ScansInFlight(kind) ==
    CASE kind = "cleanup" -> IF scan_receiver = Running THEN 1 ELSE 0
      [] kind = "treemap" -> IF treemap_receiver = Running THEN 1 ELSE 0
      [] kind = "large_files" ->
            orphan_scans + (IF large_files_receiver = Running THEN 1 ELSE 0)

\* C15: whatever the sequence of navigate_to_screen, large_files_set_min_size
\* and large_files_set_min_age calls, at most one scan of a kind is in flight.
C15_AtMostOneScanInFlight ==
    \A kind \in {"cleanup", "treemap", "large_files"} : ScansInFlight(kind) <= 1

(***************************************************************************)
(* Claims about batch deletion on the three list screens (checked under    *)
(* SpecBatch).                                                             *)
(***************************************************************************)
\* the list of the current screen, flattened
BatchItems ==
    CASE current_screen = "StorageCleanup"  -> cleanable_items
      [] current_screen = "DuplicateFinder" -> group_files(duplicate_groups)
      [] current_screen = "LargeFiles"      -> large_files
      [] OTHER -> <<>>

BatchSelected == SelectSeq(BatchItems, LAMBDA item : item.selected)

\* a deletion that removes: any but the preview of the cleanup screen
BatchRemoves ==
    /\ BatchSelected # <<>>
    /\ ~(preview_mode /\ current_screen = "StorageCleanup")

CallsWith(log, ok) == Cardinality({ i \in 1..Len(log) : log[i].ok = ok })

\* C16: a batch deletion attempts the removal of every selected item exactly
\* once, in the order of the list, goes on after a removal that fails, and
\* reports succeeded and failed counts that add up to the number selected.
C16_EverySelectedItemAttempted ==
    [][ (delete_selected /\ BatchRemoves) =>
            /\ Len(fs_log') = Len(BatchSelected)
            /\ \A i \in 1..Len(BatchSelected) :
                  /\ IsRemoval(fs_log'[i])
                  /\ fs_log'[i].path = BatchSelected[i].path
            /\ status_message'.count = CallsWith(fs_log', TRUE)
            /\ status_message'.failed = CallsWith(fs_log', FALSE)
            /\ status_message'.count + status_message'.failed = Len(BatchSelected)
      ]_vars

\* a deletion of duplicates whose first removal failed and whose second one
\* succeeded
C16_Witness ==
    /\ current_screen = "DuplicateFinder"
    /\ Len(fs_log) >= 2
    /\ ~fs_log[1].ok
    /\ fs_log[2].ok
    /\ status_message.count >= 1
    /\ status_message.failed >= 1

\* the bytes the removals of the log freed
FreedBytes(log) ==
    SumSeq([i \in 1..Len(log) |-> IF log[i].ok THEN ListedSize(log[i].path) ELSE 0])

\* C17: the byte total reported after a batch deletion is the sum of the sizes
\* of the items whose removal succeeded.
C17_ReportedBytesAreFreedBytes ==
    fs_log # <<>> => status_message.size = FreedBytes(fs_log)

\* C18: in preview mode delete_selected issues no removal and leaves
\* cleanable_items, duplicate_groups and large_files unchanged, on all three
\* screens.
C18_PreviewRemovesNothing ==
    [][ (delete_selected /\ preview_mode) =>
            /\ \A i \in 1..Len(fs_log') : ~IsRemoval(fs_log'[i])
            /\ UNCHANGED <<cleanable_items, duplicate_groups, large_files>>
      ]_vars

\* C27: after duplicate_delete_selected, whatever was selected, every group
\* still held has at least 2 members, a total_size that is the sum of the
\* sizes of its remaining members, and a wasted size of total_size minus the
\* size of one member.
C27_GroupsStayConsistent ==
    [][ (delete_selected /\ current_screen = "DuplicateFinder") =>
            \A g \in 1..Len(duplicate_groups') :
                LET group == duplicate_groups'[g] IN
                /\ Len(group.files) >= 2
                /\ group.total_size =
                      SumSeq([n \in 1..Len(group.files) |-> group.files[n].size])
                /\ group.duplicate_size = group.total_size - group.files[1].size
      ]_vars

C28_CursorsStayInRange ==
    /\ menu_index \in {0, 1}
    /\ cleanable_items # <<>> => selected_index < Len(cleanable_items)
    /\ large_files # <<>> => large_files_selected_index < Len(large_files)

(***************************************************************************)
(* Claims about a second sanitize_path call (checked under SpecSan).       *)
(***************************************************************************)
\* C19: sanitize_path is idempotent on its successful results: when it returns
\* Ok(c) for a path, it returns Ok(c) for c, so validating a validated path
\* again gives the same outcome.
C19_SanitizeIsIdempotent ==
    san_second # Pending => san_second = san_result

\* a validated path that differs from the path handed in was validated again
C19_Witness ==
    /\ san_second # Pending
    /\ san_result.path # san_path
    /\ san_second = Ok(san_result.path)

(***************************************************************************)
(* Claims about CleanupScanner::scan_path (checked under SpecCleanup).     *)
(***************************************************************************)
ClDone == cl_result.status = "Ok"

\* the bytes of all regular files beneath the directory at `depth`: what
\* removing the directory recursively frees
BytesBeneath(depth) ==
    SumSeq([j \in 1..(MaxCleanupChain + 1) |->
               IF j - 1 >= depth THEN SumSeq(cl_fs[j - 1]) ELSE 0])

\* C20: the size of every item scan_path emits is the aggregate size of all
\* files beneath the item's path at scan time: removing the item's directory
\* recursively frees exactly the reported size.
C20_SizeIsAllBeneath ==
    ClDone =>
        \A n \in 1..Len(cl_result.items) :
            cl_result.items[n].size = BytesBeneath(Len(cl_result.items[n].path))

(***************************************************************************)
(* Claims about CleanupScanner::scan_all (checked under SpecAll).          *)
(***************************************************************************)
AllDone == all_result.status = "Ok"

ItemsOf(items) == { items[n] : n \in 1..Len(items) }

\* the directories the fallback is said to scan: Downloads, Documents,
\* Desktop and the user profile root
StatedFallbackDirs(home) ==
    IF home = <<>> THEN <<>>
    ELSE << home \o <<"Downloads">>, home \o <<"Documents">>,
            home \o <<"Desktop">>, home >>

\* C21: scan_all returns the items of the categories when there is one, and
\* otherwise, and only then, the items scan_path finds under Downloads,
\* Documents, Desktop and the user profile root, each tagged UserCaches.
C21_FallbackScansProfileRoot ==
    AllDone =>
        LET o == CHOOSE o \in AllOrders : TRUE
            found == ItemsOf(scan_categories(all_fs, o, all_home))
        IN ItemsOf(all_result.items) =
              IF found = {}
              THEN ItemsOf(scan_paths(all_fs, o, StatedFallbackDirs(all_home), "UserCaches"))
              ELSE found

\* C30: scan_all never returns two items with the same path, also when the
\* root of one category lies inside the root of another.
C30_NoTwoItemsOfOnePath ==
    AllDone =>
        \A i, j \in 1..Len(all_result.items) :
            i # j => all_result.items[i].path # all_result.items[j].path

====
